---- MODULE Spec2Model ----
(***************************************************************************)
(* go-apc: the connection and request multiplexer of the Avaya Proactive   *)
(* Contact agent client.  One reader goroutine (Client.readEvents), one    *)
(* dispatcher goroutine (Client.Start), one goroutine per command method   *)
(* (invokeCommand / processRequest / destroyCommand), one notification     *)
(* processor (Client.Notifications / processNotifications) and the server  *)
(* on the other end of the transport.                                      *)
(***************************************************************************)
EXTENDS Integers, Sequences, FiniteSets, TLC

(***************************************************************************)
(* Bounds of the model.                                                    *)
(***************************************************************************)
NumCallers == 2
MaxEvents == 2
SubscribedCallers == 1

(***************************************************************************)
(* Program constants.                                                      *)
(***************************************************************************)
ConnOK == 0
ConnClosed == 1
\* math.MaxUint32 is 4294967295, above the integers of the model checker: the
\* model takes the largest integer it has, which like the original lies above
\* every invoke id of at most 4 decimal digits.
MaxUint32 == 2147483647
InboxCap == 1
NotifCap == 128
MaxKeywordLen == 20
MaxInvokeIDDigits == 4

Callers == 1..NumCallers
\* The request created by Client.Notifications; the request of a command
\* method is identified with the caller that created it.
NotifReq == 0
\* The request created by a second call of Client.Notifications.
NotifReq2 == NumCallers + 1
Reqs == {NotifReq} \cup Callers \cup {NotifReq2}

Keywords == {"AGTLogon", "AGTLogoff", "AGTKeywordOfTwentyOneB"}

\* An absent event (the zero Event of a receive that has not happened).
\* Beside the fields of Event the model records with an event the caller whose
\* frame it answers (org), the invoke id it carried on the wire (wid) and its
\* position on the wire (seq).
NoEvent ==
  [kw |-> "", typ |-> "", id |-> 0, segs |-> <<>>, inc |-> FALSE,
   org |-> 0, wid |-> 0, seq |-> 0]

(***************************************************************************)
(* Event classification helpers (proto.go).                                *)
(***************************************************************************)
IsStart(e) ==
  /\ e.typ = "N"
  /\ Len(e.segs) >= 2
  /\ e.segs[1] = "0"
  /\ e.segs[2] = "AGENT_STARTUP"

IsPending(e) ==
  /\ e.typ = "P"
  /\ Len(e.segs) >= 2
  /\ e.segs[1] = "0"
  /\ e.segs[2] = "S28833"

IsDataMessage(e) ==
  /\ e.typ = "D"
  /\ Len(e.segs) >= 2
  /\ e.segs[1] = "0"

IsSuccessfulResponse(e) ==
  /\ e.typ = "R"
  /\ Len(e.segs) >= 2
  /\ e.segs[1] = "0"
  /\ e.segs[2] = "M00000"

\* The error codes of the model are 6-character tokens starting with E.
ErrorCodes == {"E12345"}

IsResponseError(e) ==
  /\ e.typ = "R"
  /\ Len(e.segs) >= 2
  /\ e.segs[1] = "1"
  /\ e.segs[2] \in ErrorCodes

IsSuccessfulNotification(e) ==
  /\ e.typ = "N"
  /\ Len(e.segs) >= 2
  /\ e.segs[1] = "0"
  /\ e.segs[2] = "M00000"

IsNotificationError(e) ==
  /\ e.typ = "N"
  /\ Len(e.segs) >= 2
  /\ e.segs[1] = "1"
  /\ e.segs[2] \in ErrorCodes

IsNotificationData(e) ==
  /\ e.typ = "N"
  /\ Len(e.segs) >= 2
  /\ e.segs[1] = "0"
  /\ e.segs[2] = "M00001"

(***************************************************************************)
(* Invoke-ID pool: a high-water mark and the set of recycled tags below it. *)
(***************************************************************************)
NewInvokeIDPool == [maxUsed |-> 0, used |-> {}]

SetMin(S) == CHOOSE x \in S : \A y \in S : x <= y

\* Get that returns the largest recycled tag.
PoolGetIDLargest(p) ==
  IF p.used # {} THEN CHOOSE x \in p.used : \A y \in p.used : x >= y
  ELSE p.maxUsed + 1

\* The tag Get returns.
PoolGetID(p) == IF p.used # {} THEN SetMin(p.used) ELSE p.maxUsed + 1

\* Get that leaves the tag it hands out in the recycled set.
PoolGetKeepsRecycled(p) ==
  IF p.used # {} THEN p ELSE [p EXCEPT !.maxUsed = @ + 1]

\* The pool after Get.
PoolGet(p) ==
  IF p.used # {}
    THEN [p EXCEPT !.used = @ \ {SetMin(p.used)}]
    ELSE [p EXCEPT !.maxUsed = @ + 1]

\* The lowest high-water mark reachable from m by walking down through
\* recycled tags.
RECURSIVE ShrinkTo(_, _)
ShrinkTo(m, used) == IF m > 0 /\ m \in used THEN ShrinkTo(m - 1, used) ELSE m

\* Release that checks the range of the tag only.
PoolReleasePanicsRangeOnly(p, t) == t < 1 \/ t > p.maxUsed

\* Release panics on a tag out of range or already recycled.
PoolReleasePanics(p, t) == t < 1 \/ t > p.maxUsed \/ t \in p.used

\* Release that lowers the high-water mark by one only.
PoolReleaseNoShrink(p, t) ==
  IF t = p.maxUsed
    THEN [maxUsed |-> t - 1, used |-> p.used]
    ELSE [p EXCEPT !.used = @ \cup {t}]

\* The pool after Release(t) of a tag in range and not recycled.
PoolRelease(p, t) ==
  IF t = p.maxUsed
    THEN LET m == ShrinkTo(t - 1, p.used)
         IN [maxUsed |-> m, used |-> {u \in p.used : u <= m}]
    ELSE [p EXCEPT !.used = @ \cup {t}]

\* The tags handed out and not given back.
PoolHeld(p) == (1..p.maxUsed) \ p.used

(***************************************************************************)
(* The request registry: a map from tag to request.                        *)
(***************************************************************************)
MapPut(m, k, v) == [x \in (DOMAIN m) \cup {k} |-> IF x = k THEN v ELSE m[x]]
MapDelete(m, k) == [x \in (DOMAIN m) \ {k} |-> m[x]]

\* The number of decimal digits of n (len(strconv.Itoa(n))).
RECURSIVE Digits(_)
Digits(n) == IF n < 10 THEN 1 ELSE 1 + Digits(n \div 10)

\* encodeCommand that checks the invoke id only.
EncodeErrorInvokeIDOnly(keyword, invokeID) ==
  IF Digits(invokeID) > MaxInvokeIDDigits THEN "EncodeErr" ELSE "none"

\* encodeCommand's checks: the error it returns, or "none".
EncodeError(keyword, invokeID) ==
  IF Len(keyword) > MaxKeywordLen THEN "EncodeErr"
  ELSE IF Digits(invokeID) > MaxInvokeIDDigits THEN "EncodeErr"
  ELSE "none"

VARIABLES
  state,          \* c.state: ConnOK or ConnClosed
  connClosed,     \* c.conn has been closed
  eventsClosed,   \* c.events has been closed
  notifications,  \* c.notifications: created, closed, buffered items
  pool,           \* c.invokeIDPool
  requests,       \* c.requests
  inbox,          \* request.eventChan of every request
  ctxDone,        \* request.context is done, for every request
  wire,           \* the command frames written to the transport
  stream,         \* the bytes written to the transport, in order, in chunks
  nread,          \* the number of frames the reader has read
  script,         \* the frames a scripted server sends, in order (none: it sends what it likes)
  rpc,            \* the reader: position
  dpc, dEv, dReq, \* the dispatcher: position, event, looked-up request
  dErr, dRet,     \* the reader's result Start received; the value NewClient or Start returned
  pc, kw, tag, err, batch, dataSegments, \* every command method
  released, startedClosed, \* history of every command method
  atShutdown,     \* history: the requests registered when the shutdown began
  npc, nOut,      \* the notification processor: position, notification being sent
  nLocals,        \* the notification processor: state, fields, message, jobName
  notifications2, \* the channel a second call of Notifications has made
  npc2, nOut2,    \* the notification processor of the second call
  nLocals2,       \* the locals of the processor of the second call
  got, ids, rec,  \* a user of the pool alone: the tag its last operation got
                  \* (0 after a Release), the tags it holds, the message of the
                  \* panic it recovered
  cIn, cRaw, cEv, \* a user of the codec alone: the arguments of encodeCommand,
                  \* what it returned, what decodeEvent returned for that
  reads, emitted, \* the frame reader alone: the buffers its reads returned, the
  readerErr       \* events it sent on c.events, the error it returned

vars == <<state, connClosed, eventsClosed, notifications, pool, requests, inbox,
          ctxDone, wire, stream, nread, script, rpc, dpc, dEv, dReq, dErr,
          dRet,
          pc, kw, tag, err, batch, dataSegments,
          released, startedClosed, atShutdown, npc, nOut,
          nLocals, notifications2, npc2, nOut2, nLocals2, got, ids, rec,
          cIn, cRaw, cEv, reads, emitted, readerErr>>

NoReq == -1
\* The codec has not been given arguments; it has not returned.
NoInput == [picked |-> FALSE, keyword |-> <<>>, invokeID |-> 0, args |-> <<>>]
NoOutput == [done |-> FALSE]
\* A Notification: its type and its payload, which is a string (payload) or a
\* map from strings to strings (fields, the set of its key-value pairs).
NoNotification == [typ |-> "", payload |-> "", fields |-> {}]

\* The locals of processNotifications when it starts (proto.go, lines 308-313).
NoLocals == [state |-> 0, fields |-> {}, message |-> "", jobName |-> ""]

\* The requests of the registry (the values of the map).
Registered == {requests[t] : t \in DOMAIN requests}

(***************************************************************************)
(* State after NewClient has returned a client and Start has been called.  *)
(***************************************************************************)
Init ==
  /\ state = ConnOK
  /\ connClosed = FALSE
  /\ eventsClosed = FALSE
  /\ notifications = [created |-> FALSE, closed |-> FALSE, buf |-> <<>>]
  /\ pool = NewInvokeIDPool
  /\ requests = << >>
  /\ inbox = [r \in Reqs |-> <<>>]
  /\ ctxDone = [r \in Reqs |-> FALSE]
  /\ wire = {}
  /\ stream = <<>>
  /\ nread = 0
  /\ script = <<>>
  /\ rpc = "read"
  /\ dpc = "select"
  /\ dEv = NoEvent
  /\ dReq = NoReq
  /\ dErr = "nil"
  /\ dRet = "running"
  /\ pc = [c \in Callers |-> "idle"]
  /\ kw = [c \in Callers |-> ""]
  /\ tag = [c \in Callers |-> 0]
  /\ err = [c \in Callers |-> "none"]
  /\ batch = [c \in Callers |-> FALSE]
  /\ dataSegments = [c \in Callers |-> <<>>]
  /\ released = [c \in Callers |-> 0]
  /\ startedClosed = [c \in Callers |-> FALSE]
  /\ atShutdown = {}
  /\ npc = "none"
  /\ nOut = NoNotification
  /\ nLocals = NoLocals
  /\ notifications2 = [created |-> FALSE, closed |-> FALSE, buf |-> <<>>]
  /\ npc2 = "none"
  /\ nOut2 = NoNotification
  /\ nLocals2 = NoLocals
  /\ got = 0
  /\ ids = {}
  /\ rec = ""
  /\ cIn = NoInput
  /\ cRaw = NoOutput
  /\ cEv = NoOutput
  /\ reads = <<>>
  /\ emitted = <<>>
  /\ readerErr = "none"

clientVars == <<state, connClosed, eventsClosed>>
readerVars == <<nread, rpc, script>>
dispVars == <<dpc, dEv, dReq, dErr, dRet>>
notifVars == <<notifications, npc, nOut, nLocals>>
histVars == <<released, startedClosed, atShutdown>>
sub2Vars == <<notifications2, npc2, nOut2, nLocals2>>
poolUserVars == <<got, ids, rec>>
codecVars == <<cIn, cRaw, cEv>>
frameVars == <<reads, emitted, readerErr>>

(***************************************************************************)
(* NewClient (apc.go): the reader goroutine is started and NewClient waits *)
(* for the first event.                                                    *)
(***************************************************************************)

\* State in NewClient at line 199: the client is built, the reader goroutine
\* runs and NewClient waits for the first event on c.events.
InitNew ==
  /\ state = ConnOK
  /\ connClosed = FALSE
  /\ eventsClosed = FALSE
  /\ notifications = [created |-> FALSE, closed |-> FALSE, buf |-> <<>>]
  /\ pool = NewInvokeIDPool
  /\ requests = << >>
  /\ inbox = [r \in Reqs |-> <<>>]
  /\ ctxDone = [r \in Reqs |-> FALSE]
  /\ wire = {}
  /\ stream = <<>>
  /\ nread = 0
  /\ script = <<>>
  /\ rpc = "read"
  /\ dpc = "hello"
  /\ dEv = NoEvent
  /\ dReq = NoReq
  /\ dErr = "nil"
  /\ dRet = "running"
  /\ pc = [c \in Callers |-> "idle"]
  /\ kw = [c \in Callers |-> ""]
  /\ tag = [c \in Callers |-> 0]
  /\ err = [c \in Callers |-> "none"]
  /\ batch = [c \in Callers |-> FALSE]
  /\ dataSegments = [c \in Callers |-> <<>>]
  /\ released = [c \in Callers |-> 0]
  /\ startedClosed = [c \in Callers |-> FALSE]
  /\ atShutdown = {}
  /\ npc = "none"
  /\ nOut = NoNotification
  /\ nLocals = NoLocals
  /\ notifications2 = [created |-> FALSE, closed |-> FALSE, buf |-> <<>>]
  /\ npc2 = "none"
  /\ nOut2 = NoNotification
  /\ nLocals2 = NoLocals
  /\ got = 0
  /\ ids = {}
  /\ rec = ""
  /\ cIn = NoInput
  /\ cRaw = NoOutput
  /\ cEv = NoOutput
  /\ reads = <<>>
  /\ emitted = <<>>
  /\ readerErr = "none"

\* The first frames a server may send: the startup notification, a response in
\* its place, a notification with another keyword, a startup notification with
\* other segments.
HelloEvents ==
  { [NoEvent EXCEPT !.kw = "AGTSTART", !.typ = "N", !.segs = <<"0", "AGENT_STARTUP">>],
    [NoEvent EXCEPT !.kw = "AGTSTART", !.typ = "R", !.segs = <<"0", "AGENT_STARTUP">>],
    [NoEvent EXCEPT !.kw = "AGTJobEnd", !.typ = "N", !.segs = <<"0", "AGENT_STARTUP">>],
    [NoEvent EXCEPT !.kw = "AGTSTART", !.typ = "N", !.segs = <<"1", "E12345">>] }

\* readEvents, lines 306-339, and NewClient, lines 199-208: the reader reads
\* and decodes the first frame and NewClient receives it; after the startup
\* notification NewClient returns the client, on which Start is called, and
\* after anything else it returns ErrHelloNotReceived and no client.
NewClientHello ==
  /\ dpc = "hello"
  /\ rpc = "read"
  /\ \E e \in HelloEvents :
       IF e.kw # "AGTSTART" \/ ~IsStart(e)
         THEN dpc' = "hello_failed" /\ dRet' = "HelloNotReceived"
         ELSE dpc' = "select" /\ UNCHANGED dRet
  /\ UNCHANGED <<frameVars, codecVars, poolUserVars, stream, sub2Vars, clientVars, readerVars, notifVars, pool, requests, inbox,
                 ctxDone, wire, dEv, dReq, dErr, pc, kw, tag, err, batch,
                 dataSegments, histVars>>

\* readEvents, lines 306-326, and NewClient, lines 194-196: the first read
\* fails or the first frame does not decode; readEvents returns and its
\* goroutine blocks in the send on c.shutdown, which only Start receives.
NewClientReaderFails ==
  /\ dpc = "hello"
  /\ rpc = "read"
  /\ rpc' = "shutdown_send"
  /\ UNCHANGED <<frameVars, codecVars, poolUserVars, stream, sub2Vars, clientVars, nread, script, dispVars, notifVars, pool, requests, inbox,
                 ctxDone, wire, pc, kw, tag, err, batch, dataSegments, histVars>>

(***************************************************************************)
(* Command methods (methods.go): invokeCommand, the request processor and  *)
(* the deferred destroyCommand.                                            *)
(***************************************************************************)

\* The bytes of the frame encodeCommand returns for caller c, as the chunks
\* the transport may see: the 55 bytes of the header, and the segments with
\* the closing ETX.
FrameChunks == 2
FrameBytes(c) == [i \in 1..FrameChunks |-> [by |-> c, part |-> i]]

\* invokeCommand, line 24: take a tag from the pool.  The callers are
\* numbered in the order in which they call.
InvokeGet(c) ==
  /\ pc[c] = "idle"
  /\ (IF c = 1 THEN TRUE ELSE pc[c - 1] # "idle")
  /\ \E k \in Keywords : kw' = [kw EXCEPT ![c] = k]
  /\ tag' = [tag EXCEPT ![c] = PoolGetID(pool)]
  /\ pool' = PoolGet(pool)
  /\ startedClosed' = [startedClosed EXCEPT ![c] = (state = ConnClosed)]
  /\ pc' = [pc EXCEPT ![c] = "check"]
  /\ UNCHANGED <<frameVars, codecVars, poolUserVars, stream, sub2Vars, clientVars, readerVars, dispVars, notifVars, requests, inbox,
                 ctxDone, wire, err, batch, dataSegments, released, atShutdown>>

\* invokeCommand without the state check of lines 26-28.
InvokeCheckNoState(c) ==
  /\ pc[c] = "check"
  /\ IF EncodeError(kw[c], tag[c]) # "none"
       THEN /\ err' = [err EXCEPT ![c] = EncodeError(kw[c], tag[c])]
            /\ pc' = [pc EXCEPT ![c] = "destroy"]
       ELSE /\ pc' = [pc EXCEPT ![c] = "write"]
            /\ UNCHANGED err
  /\ UNCHANGED <<frameVars, codecVars, poolUserVars, stream, sub2Vars, clientVars, readerVars, dispVars, notifVars, pool, requests,
                 inbox, ctxDone, wire, kw, tag, batch, dataSegments, histVars>>

\* invokeCommand, lines 26-48: the state check and the encoding.
InvokeCheck(c) ==
  /\ pc[c] = "check"
  /\ IF state # ConnOK
       THEN /\ err' = [err EXCEPT ![c] = "ConnectionClosed"]
            /\ pc' = [pc EXCEPT ![c] = "destroy"]
       ELSE IF EncodeError(kw[c], tag[c]) # "none"
         THEN /\ err' = [err EXCEPT ![c] = EncodeError(kw[c], tag[c])]
              /\ pc' = [pc EXCEPT ![c] = "destroy"]
         ELSE /\ pc' = [pc EXCEPT ![c] = "write"]
              /\ UNCHANGED err
  /\ UNCHANGED <<frameVars, codecVars, poolUserVars, stream, sub2Vars, clientVars, readerVars, dispVars, notifVars, pool, requests,
                 inbox, ctxDone, wire, kw, tag, batch, dataSegments, histVars>>

\* invokeCommand that hands the frame to the transport in one Write call for
\* every chunk.
InvokeWriteChunks(c) ==
  /\ pc[c] = "write"
  /\ \E ok \in (IF connClosed THEN {FALSE} ELSE BOOLEAN) :
       IF ok
         THEN LET done == Len(SelectSeq(stream, LAMBDA x : x.by = c)) IN
                /\ stream' = Append(stream, FrameBytes(c)[done + 1])
                /\ IF done + 1 = FrameChunks
                     THEN /\ wire' = wire \cup {[kw |-> kw[c], id |-> tag[c], by |-> c]}
                          /\ pc' = [pc EXCEPT ![c] = "register"]
                     ELSE UNCHANGED <<wire, pc>>
                /\ UNCHANGED err
         ELSE /\ err' = [err EXCEPT ![c] = "WriteErr"]
              /\ pc' = [pc EXCEPT ![c] = "destroy"]
              /\ UNCHANGED <<wire, stream>>
  /\ UNCHANGED <<frameVars, codecVars, poolUserVars, sub2Vars, clientVars, readerVars, dispVars, notifVars, pool, requests,
                 inbox, ctxDone, kw, tag, batch, dataSegments, histVars>>

\* invokeCommand, lines 52-54: write the frame to the transport.  The whole
\* frame is the argument of one call of c.conn.Write, and the calls of Write
\* on one connection are serialised by the connection (net.Conn may be used
\* by several goroutines at once; crypto/tls holds its output lock for the
\* whole call).
InvokeWrite(c) ==
  /\ pc[c] = "write"
  /\ \E ok \in (IF connClosed THEN {FALSE} ELSE BOOLEAN) :
       IF ok
         THEN /\ wire' = wire \cup {[kw |-> kw[c], id |-> tag[c], by |-> c]}
              /\ stream' = stream \o FrameBytes(c)
              /\ pc' = [pc EXCEPT ![c] = "register"]
              /\ UNCHANGED err
         ELSE /\ err' = [err EXCEPT ![c] = "WriteErr"]
              /\ pc' = [pc EXCEPT ![c] = "destroy"]
              /\ UNCHANGED <<wire, stream>>
  /\ UNCHANGED <<frameVars, codecVars, poolUserVars, sub2Vars, clientVars, readerVars, dispVars, notifVars, pool, requests,
                 inbox, ctxDone, kw, tag, batch, dataSegments, histVars>>

\* invokeCommand, lines 59-68: create the request and register it.
InvokeRegister(c) ==
  /\ pc[c] = "register"
  /\ requests' = MapPut(requests, tag[c], c)
  /\ pc' = [pc EXCEPT ![c] = "wait"]
  /\ UNCHANGED <<frameVars, codecVars, poolUserVars, stream, sub2Vars, clientVars, readerVars, dispVars, notifVars, pool, inbox,
                 ctxDone, wire, kw, tag, err, batch, dataSegments, histVars>>

\* processRequest that takes the code of an AvayaError from the status digit
\* (Segments[0]).
ProcessEventStatusAsCode(c) ==
  /\ pc[c] = "wait"
  /\ inbox[c] # <<>>
  /\ LET e == Head(inbox[c]) IN
       /\ inbox' = [inbox EXCEPT ![c] = Tail(@)]
       /\ CASE IsPending(e) ->
                 UNCHANGED <<pc, err, batch, dataSegments>>
            [] ~IsPending(e) /\ IsDataMessage(e) ->
                 /\ dataSegments' = [dataSegments EXCEPT ![c] = @ \o Tail(e.segs)]
                 /\ batch' = [batch EXCEPT ![c] = @ \/ e.inc]
                 /\ UNCHANGED <<pc, err>>
            [] ~IsPending(e) /\ ~IsDataMessage(e) /\ batch[c] ->
                 /\ dataSegments' = [dataSegments EXCEPT ![c] = @ \o e.segs]
                 /\ batch' = [batch EXCEPT ![c] = e.inc]
                 /\ UNCHANGED <<pc, err>>
            [] ~IsPending(e) /\ ~IsDataMessage(e) /\ ~batch[c]
                 /\ IsSuccessfulResponse(e) ->
                 /\ pc' = [pc EXCEPT ![c] = "destroy"]
                 /\ UNCHANGED <<err, batch, dataSegments>>
            [] ~IsPending(e) /\ ~IsDataMessage(e) /\ ~batch[c]
                 /\ ~IsSuccessfulResponse(e) /\ IsResponseError(e) ->
                 /\ pc' = [pc EXCEPT ![c] = "destroy"]
                 /\ err' = [err EXCEPT ![c] = e.segs[1]]
                 /\ dataSegments' = [dataSegments EXCEPT ![c] = <<>>]
                 /\ UNCHANGED batch
            [] OTHER ->
                 /\ pc' = [pc EXCEPT ![c] = "destroy"]
                 /\ err' = [err EXCEPT ![c] = "UnexpectedEvent"]
                 /\ dataSegments' = [dataSegments EXCEPT ![c] = <<>>]
                 /\ UNCHANGED batch
  /\ UNCHANGED <<frameVars, codecVars, poolUserVars, stream, sub2Vars, clientVars, readerVars, dispVars, notifVars, pool, requests,
                 ctxDone, wire, kw, tag, histVars>>

\* processRequest without the case that skips a pending event.
ProcessEventPendingFails(c) ==
  /\ pc[c] = "wait"
  /\ inbox[c] # <<>>
  /\ LET e == Head(inbox[c]) IN
       /\ inbox' = [inbox EXCEPT ![c] = Tail(@)]
       /\ CASE ~IsPending(e) /\ IsDataMessage(e) ->
                 /\ dataSegments' = [dataSegments EXCEPT ![c] = @ \o Tail(e.segs)]
                 /\ batch' = [batch EXCEPT ![c] = @ \/ e.inc]
                 /\ UNCHANGED <<pc, err>>
            [] ~IsPending(e) /\ ~IsDataMessage(e) /\ batch[c] ->
                 /\ dataSegments' = [dataSegments EXCEPT ![c] = @ \o e.segs]
                 /\ batch' = [batch EXCEPT ![c] = e.inc]
                 /\ UNCHANGED <<pc, err>>
            [] ~IsPending(e) /\ ~IsDataMessage(e) /\ ~batch[c]
                 /\ IsSuccessfulResponse(e) ->
                 /\ pc' = [pc EXCEPT ![c] = "destroy"]
                 /\ UNCHANGED <<err, batch, dataSegments>>
            [] ~IsPending(e) /\ ~IsDataMessage(e) /\ ~batch[c]
                 /\ ~IsSuccessfulResponse(e) /\ IsResponseError(e) ->
                 /\ pc' = [pc EXCEPT ![c] = "destroy"]
                 /\ err' = [err EXCEPT ![c] = e.segs[2]]
                 /\ dataSegments' = [dataSegments EXCEPT ![c] = <<>>]
                 /\ UNCHANGED batch
            [] OTHER ->
                 /\ pc' = [pc EXCEPT ![c] = "destroy"]
                 /\ err' = [err EXCEPT ![c] = "UnexpectedEvent"]
                 /\ dataSegments' = [dataSegments EXCEPT ![c] = <<>>]
                 /\ UNCHANGED batch
  /\ UNCHANGED <<frameVars, codecVars, poolUserVars, stream, sub2Vars, clientVars, readerVars, dispVars, notifVars, pool, requests,
                 ctxDone, wire, kw, tag, histVars>>

\* processRequest, the case of an event from the inbox.
ProcessEvent(c) ==
  /\ pc[c] = "wait"
  /\ inbox[c] # <<>>
  /\ LET e == Head(inbox[c]) IN
       /\ inbox' = [inbox EXCEPT ![c] = Tail(@)]
       /\ CASE IsPending(e) ->
                 UNCHANGED <<pc, err, batch, dataSegments>>
            [] ~IsPending(e) /\ IsDataMessage(e) ->
                 /\ dataSegments' = [dataSegments EXCEPT ![c] = @ \o Tail(e.segs)]
                 /\ batch' = [batch EXCEPT ![c] = @ \/ e.inc]
                 /\ UNCHANGED <<pc, err>>
            [] ~IsPending(e) /\ ~IsDataMessage(e) /\ batch[c] ->
                 /\ dataSegments' = [dataSegments EXCEPT ![c] = @ \o e.segs]
                 /\ batch' = [batch EXCEPT ![c] = e.inc]
                 /\ UNCHANGED <<pc, err>>
            [] ~IsPending(e) /\ ~IsDataMessage(e) /\ ~batch[c]
                 /\ IsSuccessfulResponse(e) ->
                 /\ pc' = [pc EXCEPT ![c] = "destroy"]
                 /\ UNCHANGED <<err, batch, dataSegments>>
            [] ~IsPending(e) /\ ~IsDataMessage(e) /\ ~batch[c]
                 /\ ~IsSuccessfulResponse(e) /\ IsResponseError(e) ->
                 /\ pc' = [pc EXCEPT ![c] = "destroy"]
                 /\ err' = [err EXCEPT ![c] = e.segs[2]]
                 /\ dataSegments' = [dataSegments EXCEPT ![c] = <<>>]
                 /\ UNCHANGED batch
            [] OTHER ->
                 /\ pc' = [pc EXCEPT ![c] = "destroy"]
                 /\ err' = [err EXCEPT ![c] = "UnexpectedEvent"]
                 /\ dataSegments' = [dataSegments EXCEPT ![c] = <<>>]
                 /\ UNCHANGED batch
  /\ UNCHANGED <<frameVars, codecVars, poolUserVars, stream, sub2Vars, clientVars, readerVars, dispVars, notifVars, pool, requests,
                 ctxDone, wire, kw, tag, histVars>>

\* processRequest whose cancellation case returns no error.
ProcessCanceledNil(c) ==
  /\ pc[c] = "wait"
  /\ ctxDone[c]
  /\ pc' = [pc EXCEPT ![c] = "destroy"]
  /\ dataSegments' = [dataSegments EXCEPT ![c] = <<>>]
  /\ UNCHANGED <<frameVars, codecVars, poolUserVars, stream, sub2Vars, clientVars, readerVars, dispVars, notifVars, pool, requests,
                 inbox, ctxDone, wire, kw, tag, err, batch, histVars>>

\* processRequest, the case of the request's context being done.
ProcessCanceled(c) ==
  /\ pc[c] = "wait"
  /\ ctxDone[c]
  /\ pc' = [pc EXCEPT ![c] = "destroy"]
  /\ err' = [err EXCEPT ![c] = "Canceled"]
  /\ dataSegments' = [dataSegments EXCEPT ![c] = <<>>]
  /\ UNCHANGED <<frameVars, codecVars, poolUserVars, stream, sub2Vars, clientVars, readerVars, dispVars, notifVars, pool, requests,
                 inbox, ctxDone, wire, kw, tag, batch, histVars>>

\* destroyCommand that releases the tag without deleting the registry entry.
DestroyLookupNoDelete(c) ==
  /\ pc[c] = "destroy"
  /\ pc' = [pc EXCEPT ![c] = "release"]
  /\ UNCHANGED <<frameVars, codecVars, poolUserVars, stream, sub2Vars, clientVars, readerVars, dispVars, notifVars, pool, requests,
                 inbox, ctxDone, wire, kw, tag, err, batch, dataSegments, histVars>>

\* destroyCommand that returns without the Release when the registry does not
\* hold the request (lines 77-80 without line 78).
DestroyLookupNoRelease(c) ==
  /\ pc[c] = "destroy"
  /\ pc' = [pc EXCEPT ![c] = IF tag[c] \in DOMAIN requests THEN "delete" ELSE "done"]
  /\ UNCHANGED <<frameVars, codecVars, poolUserVars, stream, sub2Vars, clientVars, readerVars, dispVars, notifVars, pool, requests,
                 inbox, ctxDone, wire, kw, tag, err, batch, dataSegments, histVars>>

\* destroyCommand, lines 72-80: look the tag up in the registry.
DestroyLookup(c) ==
  /\ pc[c] = "destroy"
  /\ pc' = [pc EXCEPT ![c] = IF tag[c] \in DOMAIN requests THEN "delete" ELSE "release"]
  /\ UNCHANGED <<frameVars, codecVars, poolUserVars, stream, sub2Vars, clientVars, readerVars, dispVars, notifVars, pool, requests,
                 inbox, ctxDone, wire, kw, tag, err, batch, dataSegments, histVars>>

\* destroyCommand that leaves the request in the registry.
DestroyDeleteNothing(c) ==
  /\ pc[c] = "delete"
  /\ requests' = requests
  /\ pc' = [pc EXCEPT ![c] = "release"]
  /\ UNCHANGED <<frameVars, codecVars, poolUserVars, stream, sub2Vars, clientVars, readerVars, dispVars, notifVars, pool, inbox,
                 ctxDone, wire, kw, tag, err, batch, dataSegments, histVars>>

\* destroyCommand, lines 83-85: delete the request from the registry.
DestroyDelete(c) ==
  /\ pc[c] = "delete"
  /\ requests' = MapDelete(requests, tag[c])
  /\ pc' = [pc EXCEPT ![c] = "release"]
  /\ UNCHANGED <<frameVars, codecVars, poolUserVars, stream, sub2Vars, clientVars, readerVars, dispVars, notifVars, pool, inbox,
                 ctxDone, wire, kw, tag, err, batch, dataSegments, histVars>>

\* destroyCommand, lines 78 and 88: give the tag back; the method returns and
\* its locals (keyword, tag, batch flag) and its request's context are dead.
DestroyRelease(c) ==
  /\ pc[c] = "release"
  /\ IF PoolReleasePanics(pool, tag[c])
       THEN /\ pc' = [pc EXCEPT ![c] = "panic"]
            /\ UNCHANGED <<pool, released, kw, tag, batch, ctxDone>>
       ELSE /\ pool' = PoolRelease(pool, tag[c])
            /\ released' = [released EXCEPT ![c] = @ + 1]
            /\ pc' = [pc EXCEPT ![c] = "done"]
            /\ kw' = [kw EXCEPT ![c] = ""]
            /\ tag' = [tag EXCEPT ![c] = 0]
            /\ batch' = [batch EXCEPT ![c] = FALSE]
            /\ ctxDone' = [ctxDone EXCEPT ![c] = FALSE]
  /\ UNCHANGED <<frameVars, codecVars, poolUserVars, stream, sub2Vars, clientVars, readerVars, dispVars, notifVars, requests, inbox,
                 wire, err, dataSegments, startedClosed, atShutdown>>

\* The parent cancellation scope of a waiting request fires.
ParentCancel(r) ==
  /\ ~ctxDone[r]
  /\ CASE r = NotifReq -> npc \in {"run", "send"}
       [] r = NotifReq2 -> npc2 \in {"run", "send"}
       [] OTHER -> pc[r] = "wait"
  /\ ctxDone' = [ctxDone EXCEPT ![r] = TRUE]
  /\ UNCHANGED <<frameVars, codecVars, poolUserVars, stream, sub2Vars, clientVars, readerVars, dispVars, notifVars, pool, requests,
                 inbox, wire, pc, kw, tag, err, batch, dataSegments, histVars>>

(***************************************************************************)
(* The server: the frames it may send.  A reply carries the keyword and    *)
(* the invoke id of a command frame that was written to the transport; a   *)
(* notification carries an invoke id of the server's choosing.             *)
(***************************************************************************)
ReplyShapes ==
  { [typ |-> "P", segs |-> <<"0", "S28833">>, inc |-> FALSE],
    [typ |-> "D", segs |-> <<"0", "M00001", "a">>, inc |-> TRUE],
    [typ |-> "R", segs |-> <<"0", "M00000">>, inc |-> FALSE],
    [typ |-> "R", segs |-> <<"1", "E12345">>, inc |-> FALSE],
    [typ |-> "B", segs |-> <<"0", "M00000">>, inc |-> FALSE] }

NotificationShapes ==
  { [kw |-> "AGTJobEnd", segs |-> <<"0", "M00000">>],
    [kw |-> "AGTSystemError", segs |-> <<"1", "E12345">>] }

ServerReplies ==
  { [kw |-> f.kw, typ |-> sh.typ, id |-> f.id, segs |-> sh.segs,
     inc |-> sh.inc, org |-> f.by, wid |-> f.id, seq |-> nread + 1]
    : f \in wire, sh \in ReplyShapes }

ServerNotifications ==
  { [kw |-> sh.kw, typ |-> "N", id |-> i, segs |-> sh.segs,
     inc |-> FALSE, org |-> 0, wid |-> i, seq |-> nread + 1]
    : i \in 0..1, sh \in NotificationShapes }

\* The next frame of a scripted server: its reply of the scripted shape to a
\* command frame that was written to the transport.
ScriptedReplies ==
  { [kw |-> f.kw, typ |-> script[nread + 1].typ, id |-> f.id,
     segs |-> script[nread + 1].segs, inc |-> script[nread + 1].inc,
     org |-> f.by, wid |-> f.id, seq |-> nread + 1]
    : f \in wire }

\* The next frame of a scripted server when it is a notification: it carries
\* the keyword of the script and an invoke id of the server's choosing.
ScriptedNotifications ==
  { [kw |-> script[nread + 1].kw, typ |-> "N", id |-> 0,
     segs |-> script[nread + 1].segs, inc |-> script[nread + 1].inc,
     org |-> 0, wid |-> 0, seq |-> nread + 1] }

\* The frames the reader may read next.
ServerFrames ==
  IF nread < Len(script)
    THEN (IF script[nread + 1].typ = "N" THEN ScriptedNotifications
          ELSE ScriptedReplies)
  ELSE IF nread < MaxEvents THEN ServerReplies \cup ServerNotifications
  ELSE {}

(***************************************************************************)
(* The reader (Client.readEvents) and the dispatcher (Client.Start).       *)
(* c.events and c.shutdown are unbuffered: a send and its receive are one  *)
(* step, and the read that precedes the send is taken with it.             *)
(***************************************************************************)

\* The dispatcher without the rewrite of lines 218-220.
RewriteNone(e) == e

\* Line 218-220: a notification is dispatched under the notification slot.
Rewrite(e) == IF e.typ = "N" THEN [e EXCEPT !.id = MaxUint32] ELSE e

\* readEvents, lines 306-347, and Start, lines 216-220: one read that ends in
\* ETX or ETB and decodes to an event, which the dispatcher receives; the
\* reader leaves its loop after a successful AGTLogoff response.
DispatchTake ==
  /\ dpc = "select"
  /\ rpc = "read"
  /\ \E e \in ServerFrames :
       /\ dEv' = Rewrite(e)
       /\ rpc' = IF IsSuccessfulResponse(e) /\ e.kw = "AGTLogoff"
                   THEN "publish" ELSE "read"
  /\ nread' = nread + 1
  /\ dpc' = "lookup"
  /\ UNCHANGED <<frameVars, codecVars, poolUserVars, stream, sub2Vars, clientVars, notifVars, pool, requests, inbox, ctxDone, wire,
                 script, dReq, dErr, dRet, pc, kw, tag, err, batch, dataSegments,
                 histVars>>

\* The lookup with a fallback: an event with an unknown tag goes to some
\* registered request instead of being dropped.
DispatchLookupFallback ==
  /\ dpc = "lookup"
  /\ IF dEv.id \in DOMAIN requests
       THEN /\ dReq' = requests[dEv.id]
            /\ dpc' = "push"
            /\ UNCHANGED dEv
       ELSE IF DOMAIN requests # {}
         THEN /\ \E t \in DOMAIN requests : dReq' = requests[t]
              /\ dpc' = "push"
              /\ UNCHANGED dEv
         ELSE /\ dpc' = "select"
              /\ dEv' = NoEvent
              /\ UNCHANGED dReq
  /\ UNCHANGED <<frameVars, codecVars, poolUserVars, stream, sub2Vars, clientVars, readerVars, notifVars, pool, requests, inbox, ctxDone,
                 wire, dErr, dRet, pc, kw, tag, err, batch, dataSegments, histVars>>

\* Lines 223-228: the lookup under the read lock; an unknown tag drops the event.
DispatchLookup ==
  /\ dpc = "lookup"
  /\ IF dEv.id \in DOMAIN requests
       THEN /\ dReq' = requests[dEv.id]
            /\ dpc' = "push"
            /\ UNCHANGED dEv
       ELSE /\ dpc' = "select"
            /\ dEv' = NoEvent
            /\ UNCHANGED dReq
  /\ UNCHANGED <<frameVars, codecVars, poolUserVars, stream, sub2Vars, clientVars, readerVars, notifVars, pool, requests, inbox, ctxDone,
                 wire, dErr, dRet, pc, kw, tag, err, batch, dataSegments, histVars>>

\* The send into an inbox that has room for two events and hands out the
\* newest one first.
DispatchPushFront ==
  /\ dpc = "push"
  /\ Len(inbox[dReq]) < InboxCap + 1
  /\ inbox' = [inbox EXCEPT ![dReq] = <<dEv>> \o @]
  /\ dpc' = "select"
  /\ dEv' = NoEvent
  /\ dReq' = NoReq
  /\ UNCHANGED <<frameVars, codecVars, poolUserVars, stream, sub2Vars, clientVars, readerVars, notifVars, pool, requests, ctxDone,
                 wire, dErr, dRet, pc, kw, tag, err, batch, dataSegments, histVars>>

\* Line 229: the send into the request's inbox, which blocks while it is full.
DispatchPush ==
  /\ dpc = "push"
  /\ Len(inbox[dReq]) < InboxCap
  /\ inbox' = [inbox EXCEPT ![dReq] = Append(@, dEv)]
  /\ dpc' = "select"
  /\ dEv' = NoEvent
  /\ dReq' = NoReq
  /\ UNCHANGED <<frameVars, codecVars, poolUserVars, stream, sub2Vars, clientVars, readerVars, notifVars, pool, requests, ctxDone,
                 wire, dErr, dRet, pc, kw, tag, err, batch, dataSegments, histVars>>

\* The value readEvents returns: ErrConnectionClosed on end of stream, the
\* error itself on a timeout or another transport error (lines 306-314) or on
\* a frame that does not decode (lines 322-326), nil after the loop was left
\* (line 351).
ReaderResults ==
  IF rpc = "publish" THEN {"nil"} ELSE {"ConnectionClosed", "ReadErr", "DecodeErr"}

\* A shutdown that begins while the reader is still in its loop.
ShutdownTakeReaderGoesOn ==
  /\ dpc = "select"
  /\ rpc \in {"read", "publish"}
  /\ \E x \in ReaderResults : dErr' = x
  /\ rpc' = rpc
  /\ state' = ConnClosed
  /\ dpc' = "sd_conn"
  /\ atShutdown' = Registered
  /\ UNCHANGED <<frameVars, codecVars, poolUserVars, stream, sub2Vars, connClosed, eventsClosed, notifVars, pool, requests, inbox,
                 ctxDone, wire, nread, script, dEv, dReq, dRet, pc, kw, tag,
                 err, batch,
                 dataSegments, released, startedClosed>>

\* readEvents returns and the dispatcher receives its result (line 231) and
\* marks the connection as closed (line 233).
ShutdownTake ==
  /\ dpc = "select"
  /\ rpc \in {"read", "publish"}
  /\ \E x \in ReaderResults : dErr' = x
  /\ rpc' = "exit"
  /\ state' = ConnClosed
  /\ dpc' = "sd_conn"
  /\ atShutdown' = Registered
  /\ UNCHANGED <<frameVars, codecVars, poolUserVars, stream, sub2Vars, connClosed, eventsClosed, notifVars, pool, requests, inbox,
                 ctxDone, wire, nread, script, dEv, dReq, dRet, pc, kw, tag,
                 err, batch,
                 dataSegments, released, startedClosed>>

\* Lines 236-238: closing the transport; Start returns the error of a failed
\* Close (the err of line 236 shadows the one received at line 231).
ShutdownConn ==
  /\ dpc = "sd_conn"
  /\ connClosed' = TRUE
  /\ \E ok \in BOOLEAN :
       IF ok THEN dpc' = "sd_chan" /\ UNCHANGED dRet
             ELSE dpc' = "returned" /\ dRet' = "CloseErr"
  /\ UNCHANGED <<frameVars, codecVars, poolUserVars, stream, sub2Vars, state, eventsClosed, readerVars, notifVars, pool, requests,
                 inbox, ctxDone, wire, dEv, dReq, dErr, pc, kw, tag, err, batch,
                 dataSegments, histVars>>

\* Lines 241-246: close the notifications channel if there is one (the one
\* the last call of Notifications has stored in c.notifications), then the
\* event channel.
ShutdownChannels ==
  /\ dpc = "sd_chan"
  /\ notifications' = IF notifications.created /\ ~notifications2.created
                        THEN [notifications EXCEPT !.closed = TRUE]
                        ELSE notifications
  /\ notifications2' = IF notifications2.created
                         THEN [notifications2 EXCEPT !.closed = TRUE]
                         ELSE notifications2
  /\ eventsClosed' = TRUE
  /\ dpc' = "sd_cancel"
  /\ UNCHANGED <<frameVars, codecVars, poolUserVars, stream, nLocals, nLocals2, npc2, nOut2, state, connClosed, readerVars, npc, nOut, pool, requests, inbox,
                 ctxDone, wire, dEv, dReq, dErr, dRet, pc, kw, tag, err, batch,
                 dataSegments, histVars>>

\* Lines 249-257: cancel every registered request under the read lock; return.
ShutdownCancel ==
  /\ dpc = "sd_cancel"
  /\ ctxDone' = [r \in Reqs |-> ctxDone[r] \/ r \in Registered]
  /\ dpc' = "returned"
  /\ dRet' = dErr
  /\ UNCHANGED <<frameVars, codecVars, poolUserVars, stream, sub2Vars, clientVars, readerVars, notifVars, pool, requests, inbox, wire,
                 dEv, dReq, dErr, pc, kw, tag, err, batch, dataSegments, histVars>>

(***************************************************************************)
(* Notifications (Client.Notifications, processNotifications) and the      *)
(* subscriber that reads the channel.                                      *)
(***************************************************************************)

\* strings.Split(s, ","), for the segments of the model.
FieldParts(s) ==
  CASE s = "CURPHONE,3" -> <<"CURPHONE", "3">>
    [] s = "CURPHONE,4" -> <<"CURPHONE", "4">>
    [] s = "DEBT_ID,42" -> <<"DEBT_ID", "42">>
    [] OTHER -> <<s>>

\* fields[k] = v on a map held as the set of its key-value pairs.
FieldsPut(m, k, v) == {p \in m : p[1] # k} \cup {<<k, v>>}

RECURSIVE FieldsLoop(_, _)
\* processNotifications, lines 326-334: the loop over the segments of the
\* second data frame of a call notification; every pass makes a new map.
FieldsLoop(fields, segs) ==
  IF segs = <<>> THEN fields
  ELSE LET parts == FieldParts(Head(segs)) IN
         FieldsLoop(IF Len(parts) # 2 THEN {}
                    ELSE FieldsPut({}, parts[1], parts[2]),
                    Tail(segs))

\* The segments after the status digit and the message code (Segments[2:]).
Body(e) == SubSeq(e.segs, 3, Len(e.segs))

\* processNotifications, lines 317-361: one event taken from the inbox.  The
\* result is the locals after the event, the notification to send if there is
\* one, and the position of the processor: at its select again ("run"), at
\* the send ("send"), or dead after an index out of range ("panic").
Assemble(l, e) ==
  CASE IsNotificationData(e) ->
         (CASE e.kw = "AGTCallNotify" /\ l.state = 0 ->
                 [locals |-> [l EXCEPT !.state = 1], out |-> NoNotification, next |-> "run"]
            [] e.kw = "AGTCallNotify" /\ l.state = 1 ->
                 [locals |-> [l EXCEPT !.state = 2,
                                       !.fields = FieldsLoop(l.fields, Body(e))],
                  out |-> NoNotification, next |-> "run"]
            [] e.kw \in {"AGTReceiveMessage", "AGTJobTransRequest"} /\ Len(e.segs) < 3 ->
                 [locals |-> l, out |-> NoNotification, next |-> "panic"]
            [] e.kw = "AGTReceiveMessage" /\ Len(e.segs) >= 3 ->
                 [locals |-> [l EXCEPT !.message = e.segs[3]],
                  out |-> NoNotification, next |-> "run"]
            [] e.kw = "AGTJobTransRequest" /\ Len(e.segs) >= 3 ->
                 [locals |-> [l EXCEPT !.jobName = e.segs[3]],
                  out |-> NoNotification, next |-> "run"]
            [] OTHER ->
                 [locals |-> l, out |-> NoNotification, next |-> "run"])
    [] ~IsNotificationData(e) /\ IsSuccessfulNotification(e) ->
         (CASE e.kw = "AGTCallNotify" ->
                 [locals |-> [l EXCEPT !.state = 0, !.fields = {}],
                  out |-> [typ |-> e.kw, payload |-> "", fields |-> l.fields],
                  next |-> "send"]
            [] e.kw = "AGTReceiveMessage" ->
                 [locals |-> [l EXCEPT !.message = ""],
                  out |-> [typ |-> e.kw, payload |-> l.message, fields |-> {}],
                  next |-> "send"]
            [] e.kw = "AGTJobTransRequest" ->
                 [locals |-> [l EXCEPT !.jobName = ""],
                  out |-> [typ |-> e.kw, payload |-> l.jobName, fields |-> {}],
                  next |-> "send"]
            [] OTHER ->
                 [locals |-> l,
                  out |-> [typ |-> e.kw, payload |-> "", fields |-> {}],
                  next |-> "send"])
    [] ~IsNotificationData(e) /\ ~IsSuccessfulNotification(e)
         /\ IsNotificationError(e) ->
         [locals |-> l,
          out |-> [typ |-> e.kw, payload |-> e.segs[2], fields |-> {}],
          next |-> "send"]
    [] OTHER -> [locals |-> l, out |-> NoNotification, next |-> "run"]

\* Client.Notifications, line 264.
NotificationsMake ==
  /\ npc = "none"
  /\ notifications' = [created |-> TRUE, closed |-> FALSE, buf |-> <<>>]
  /\ npc' = "register"
  /\ UNCHANGED <<frameVars, codecVars, poolUserVars, stream, nLocals, sub2Vars, clientVars, readerVars, dispVars, nOut, pool, requests, inbox,
                 ctxDone, wire, pc, kw, tag, err, batch, dataSegments, histVars>>

\* Client.Notifications, lines 267-284: register the slot, start the processor.
NotificationsRegister ==
  /\ npc = "register"
  /\ requests' = MapPut(requests, MaxUint32, NotifReq)
  /\ npc' = "run"
  /\ UNCHANGED <<frameVars, codecVars, poolUserVars, stream, nLocals, sub2Vars, clientVars, readerVars, dispVars, notifications, nOut, pool, inbox,
                 ctxDone, wire, pc, kw, tag, err, batch, dataSegments, histVars>>

\* processNotifications, the case of an event from the inbox.
NotifyEvent ==
  /\ npc = "run"
  /\ inbox[NotifReq] # <<>>
  /\ LET e == Head(inbox[NotifReq]) IN
       /\ inbox' = [inbox EXCEPT ![NotifReq] = Tail(@)]
       /\ nLocals' = Assemble(nLocals, e).locals
       /\ nOut' = Assemble(nLocals, e).out
       /\ npc' = Assemble(nLocals, e).next
  /\ UNCHANGED <<frameVars, codecVars, poolUserVars, stream, sub2Vars, clientVars, readerVars, dispVars, notifications, pool, requests,
                 ctxDone, wire, pc, kw, tag, err, batch, dataSegments, histVars>>

\* processNotifications, lines 358 and 360: the send on the notifications
\* channel; it blocks while the channel is full and panics once it is closed.
NotifySend ==
  /\ npc = "send"
  /\ IF notifications.closed
       THEN /\ npc' = "panic"
            /\ UNCHANGED <<notifications, nOut>>
       ELSE /\ Len(notifications.buf) < NotifCap
            /\ notifications' = [notifications EXCEPT !.buf = Append(@, nOut)]
            /\ nOut' = NoNotification
            /\ npc' = "run"
  /\ UNCHANGED <<frameVars, codecVars, poolUserVars, stream, nLocals, sub2Vars, clientVars, readerVars, dispVars, pool, requests, inbox, ctxDone,
                 wire, pc, kw, tag, err, batch, dataSegments, histVars>>

\* processNotifications, lines 362-363: the request's context is done.
NotifyCanceled ==
  /\ npc = "run"
  /\ ctxDone[NotifReq]
  /\ npc' = "unregister"
  /\ UNCHANGED <<frameVars, codecVars, poolUserVars, stream, nLocals, sub2Vars, clientVars, readerVars, dispVars, notifications, nOut, pool,
                 requests, inbox, ctxDone, wire, pc, kw, tag, err, batch,
                 dataSegments, histVars>>

\* Client.Notifications, lines 277-281: the deferred removal of the slot.
NotifyUnregister ==
  /\ npc = "unregister"
  /\ requests' = MapDelete(requests, MaxUint32)
  /\ npc' = "exit"
  /\ UNCHANGED <<frameVars, codecVars, poolUserVars, stream, nLocals, sub2Vars, clientVars, readerVars, dispVars, notifications, nOut, pool, inbox,
                 ctxDone, wire, pc, kw, tag, err, batch, dataSegments, histVars>>

\* The subscriber receives one notification from the channel.
SubscriberReceive ==
  /\ notifications.buf # <<>>
  /\ notifications' = [notifications EXCEPT !.buf = Tail(@)]
  /\ UNCHANGED <<frameVars, codecVars, poolUserVars, stream, nLocals, sub2Vars, clientVars, readerVars, dispVars, npc, nOut, pool, requests, inbox,
                 ctxDone, wire, pc, kw, tag, err, batch, dataSegments, histVars>>

(***************************************************************************)
(* A second call of Client.Notifications on the same client, after the     *)
(* first has returned, and the notification processor it starts.           *)
(***************************************************************************)

\* Client.Notifications, line 264: the new channel replaces c.notifications.
NotificationsAgainMake ==
  /\ npc \notin {"none", "register"}
  /\ npc2 = "none"
  /\ notifications2' = [created |-> TRUE, closed |-> FALSE, buf |-> <<>>]
  /\ npc2' = "register"
  /\ UNCHANGED <<frameVars, codecVars, poolUserVars, stream, nLocals2, clientVars, readerVars, dispVars, notifVars, nOut2, pool, requests,
                 inbox, ctxDone, wire, pc, kw, tag, err, batch, dataSegments,
                 histVars>>

\* Client.Notifications, lines 267-284: the new request takes the slot
\* math.MaxUint32 of the registry; its processor is started.
NotificationsAgainRegister ==
  /\ npc2 = "register"
  /\ requests' = MapPut(requests, MaxUint32, NotifReq2)
  /\ npc2' = "run"
  /\ UNCHANGED <<frameVars, codecVars, poolUserVars, stream, nLocals2, clientVars, readerVars, dispVars, notifVars, notifications2, nOut2,
                 pool, inbox, ctxDone, wire, pc, kw, tag, err, batch, dataSegments,
                 histVars>>

\* processNotifications of the second call, the case of an event from the inbox.
NotifyAgainEvent ==
  /\ npc2 = "run"
  /\ inbox[NotifReq2] # <<>>
  /\ LET e == Head(inbox[NotifReq2]) IN
       /\ inbox' = [inbox EXCEPT ![NotifReq2] = Tail(@)]
       /\ nLocals2' = Assemble(nLocals2, e).locals
       /\ nOut2' = Assemble(nLocals2, e).out
       /\ npc2' = Assemble(nLocals2, e).next
  /\ UNCHANGED <<frameVars, codecVars, poolUserVars, stream, clientVars, readerVars, dispVars, notifVars, notifications2, pool,
                 requests, ctxDone, wire, pc, kw, tag, err, batch, dataSegments,
                 histVars>>

\* processNotifications of the second call, lines 358 and 360: the send on
\* its channel.
NotifyAgainSend ==
  /\ npc2 = "send"
  /\ IF notifications2.closed
       THEN /\ npc2' = "panic"
            /\ UNCHANGED <<notifications2, nOut2>>
       ELSE /\ Len(notifications2.buf) < NotifCap
            /\ notifications2' = [notifications2 EXCEPT !.buf = Append(@, nOut2)]
            /\ nOut2' = NoNotification
            /\ npc2' = "run"
  /\ UNCHANGED <<frameVars, codecVars, poolUserVars, stream, nLocals2, clientVars, readerVars, dispVars, notifVars, pool, requests, inbox,
                 ctxDone, wire, pc, kw, tag, err, batch, dataSegments, histVars>>

\* processNotifications of the second call, lines 362-363.
NotifyAgainCanceled ==
  /\ npc2 = "run"
  /\ ctxDone[NotifReq2]
  /\ npc2' = "unregister"
  /\ UNCHANGED <<frameVars, codecVars, poolUserVars, stream, nLocals2, clientVars, readerVars, dispVars, notifVars, notifications2, nOut2,
                 pool, requests, inbox, ctxDone, wire, pc, kw, tag, err, batch,
                 dataSegments, histVars>>

\* Client.Notifications, lines 277-281, of the second call.
NotifyAgainUnregister ==
  /\ npc2 = "unregister"
  /\ requests' = MapDelete(requests, MaxUint32)
  /\ npc2' = "exit"
  /\ UNCHANGED <<frameVars, codecVars, poolUserVars, stream, nLocals2, clientVars, readerVars, dispVars, notifVars, notifications2, nOut2,
                 pool, inbox, ctxDone, wire, pc, kw, tag, err, batch, dataSegments,
                 histVars>>

\* One step of the second subscription.
SubscriptionAgain ==
  \/ NotificationsAgainMake
  \/ NotificationsAgainRegister
  \/ NotifyAgainEvent
  \/ NotifyAgainSend
  \/ NotifyAgainCanceled
  \/ NotifyAgainUnregister

\* One step of a command method.
Command(c) ==
  \/ InvokeGet(c)
  \/ InvokeCheck(c)
  \/ InvokeWrite(c)
  \/ InvokeRegister(c)
  \/ ProcessEvent(c)
  \/ ProcessCanceled(c)
  \/ DestroyLookup(c)
  \/ DestroyDelete(c)
  \/ DestroyRelease(c)

\* One step of the reader and the dispatcher.
Dispatcher ==
  \/ DispatchTake
  \/ DispatchLookup
  \/ DispatchPush
  \/ ShutdownTake
  \/ ShutdownConn
  \/ ShutdownChannels
  \/ ShutdownCancel

\* One step of a subscription to the notifications.
Subscription ==
  \/ NotificationsMake
  \/ NotificationsRegister
  \/ NotifyEvent
  \/ NotifySend
  \/ NotifyCanceled
  \/ NotifyUnregister
  \/ SubscriberReceive

\* A client on which command methods are called concurrently and nobody
\* subscribes to the notifications.
Next ==
  \/ \E c \in Callers : Command(c)
  \/ \E c \in Callers : ParentCancel(c)
  \/ Dispatcher

Spec == Init /\ [][Next]_vars

\* A client with a subscription to the notifications and command methods
\* called by the first SubscribedCallers callers.
NextNotif ==
  \/ \E c \in 1..SubscribedCallers : Command(c)
  \/ \E c \in 1..SubscribedCallers : ParentCancel(c)
  \/ ParentCancel(NotifReq)
  \/ Dispatcher
  \/ Subscription

SpecNotif == Init /\ [][NextNotif]_vars

\* The client from its construction on: NewClient, then the client with a
\* subscription and the first SubscribedCallers callers.
NextNew ==
  \/ NewClientHello
  \/ NewClientReaderFails
  \/ (dpc \notin {"hello", "hello_failed"} /\ NextNotif)

SpecNew == InitNew /\ [][NextNew]_vars

(***************************************************************************)
(* A command answered by a server that follows a script: ListJobs answered *)
(* by data frames and a final response, Logon answered by pending events   *)
(* and a final response.                                                   *)
(***************************************************************************)

MaxDataFrames == 3
MaxPayload == 2
MaxPending == 3

\* The job tuples a server lists, in the order of its table.
JobTuples == <<"A,JOB_A,A", "A,JOB_B,A", "A,JOB_C,I", "A,JOB_D,A">>

\* strings.Split(segment, ","), for the segments of the model.
JobParts(segment) ==
  CASE segment = "A,JOB_A,A" -> <<"A", "JOB_A", "A">>
    [] segment = "A,JOB_B,A" -> <<"A", "JOB_B", "A">>
    [] segment = "A,JOB_C,I" -> <<"A", "JOB_C", "I">>
    [] segment = "A,JOB_D,A" -> <<"A", "JOB_D", "A">>
    [] OTHER -> <<segment>>

RECURSIVE ListJobsProjection(_)
\* ListJobs, lines 224-235: the names of the jobs of the accumulated segments;
\* a segment that does not split into 3 parts is skipped.
ListJobsProjection(segs) ==
  IF segs = <<>> THEN <<>>
  ELSE (IF Len(JobParts(Head(segs))) = 3 THEN <<JobParts(Head(segs))[2]>> ELSE <<>>)
         \o ListJobsProjection(Tail(segs))

\* The payloads of one data frame: jobs of the table, in its order.
Payloads ==
  UNION { { [i \in 1..n |-> JobTuples[f[i]]]
            : f \in { g \in [1..n -> 1..Len(JobTuples)] :
                        \A i \in 1..(n - 1) : g[i] < g[i + 1] } }
          : n \in 1..MaxPayload }

\* A data frame with the status digit and the message code before its payload
\* (it satisfies IsDataMessage), and one that carries the payload alone.
HeadedFrame(payload, inc) ==
  [typ |-> "D", segs |-> <<"0", "M00001">> \o payload, inc |-> inc, payload |-> payload]

BareFrame(payload, inc) ==
  [typ |-> "D", segs |-> payload, inc |-> inc, payload |-> payload]

SuccessFrame ==
  [typ |-> "R", segs |-> <<"0", "M00000">>, inc |-> FALSE, payload |-> <<>>]

\* The scripts of a batch: a headed data frame, continuation frames, headed
\* or bare, all but the last data frame incomplete, and a successful response.
BatchScripts ==
  UNION { { [i \in 1..(n + 1) |->
               IF i = n + 1 THEN SuccessFrame
               ELSE IF i = 1 \/ headed[i] THEN HeadedFrame(pl[i], i < n)
               ELSE BareFrame(pl[i], i < n)]
            : pl \in [1..n -> Payloads], headed \in [1..n -> BOOLEAN] }
          : n \in 1..MaxDataFrames }

PendingFrame ==
  [typ |-> "P", segs |-> <<"0", "S28833">>, inc |-> FALSE, payload |-> <<>>]

\* The scripts of a slow command: any number of pending events and a
\* successful response.
PendingScripts ==
  { [i \in 1..(n + 1) |-> IF i = n + 1 THEN SuccessFrame ELSE PendingFrame]
    : n \in 0..MaxPending }

\* The commands of the scripted server and their scripts.
ScriptedCommands ==
  { [kw |-> "AGTListJobs", script |-> sc] : sc \in BatchScripts }
    \cup { [kw |-> "AGTLogon", script |-> sc] : sc \in PendingScripts }

RECURSIVE ScriptPayload(_)
\* The names of the jobs of the payloads of a script, in the order of the frames.
ScriptPayload(sc) ==
  IF sc = <<>> THEN <<>>
  ELSE ListJobsProjection(Head(sc).payload) \o ScriptPayload(Tail(sc))

\* State in a command method after invokeCommand has returned to the first
\* caller: tag 1 is taken, the frame is written and the request is registered.
InitBatch ==
  /\ state = ConnOK
  /\ connClosed = FALSE
  /\ eventsClosed = FALSE
  /\ notifications = [created |-> FALSE, closed |-> FALSE, buf |-> <<>>]
  /\ pool = PoolGet(NewInvokeIDPool)
  /\ requests = MapPut(<< >>, 1, 1)
  /\ inbox = [r \in Reqs |-> <<>>]
  /\ ctxDone = [r \in Reqs |-> FALSE]
  /\ \E sc \in ScriptedCommands :
       /\ script = sc.script
       /\ kw = [c \in Callers |-> IF c = 1 THEN sc.kw ELSE ""]
       /\ wire = {[kw |-> sc.kw, id |-> 1, by |-> 1]}
  /\ stream = FrameBytes(1)
  /\ nread = 0
  /\ rpc = "read"
  /\ dpc = "select"
  /\ dEv = NoEvent
  /\ dReq = NoReq
  /\ dErr = "nil"
  /\ dRet = "running"
  /\ pc = [c \in Callers |-> IF c = 1 THEN "wait" ELSE "idle"]
  /\ tag = [c \in Callers |-> IF c = 1 THEN 1 ELSE 0]
  /\ err = [c \in Callers |-> "none"]
  /\ batch = [c \in Callers |-> FALSE]
  /\ dataSegments = [c \in Callers |-> <<>>]
  /\ released = [c \in Callers |-> 0]
  /\ startedClosed = [c \in Callers |-> FALSE]
  /\ atShutdown = {}
  /\ npc = "none"
  /\ nOut = NoNotification
  /\ nLocals = NoLocals
  /\ notifications2 = [created |-> FALSE, closed |-> FALSE, buf |-> <<>>]
  /\ npc2 = "none"
  /\ nOut2 = NoNotification
  /\ nLocals2 = NoLocals
  /\ got = 0
  /\ ids = {}
  /\ rec = ""
  /\ cIn = NoInput
  /\ cRaw = NoOutput
  /\ cEv = NoOutput
  /\ reads = <<>>
  /\ emitted = <<>>
  /\ readerErr = "none"

\* The command method of the first caller and the dispatcher.
NextBatch ==
  \/ ProcessEvent(1)
  \/ DestroyLookup(1)
  \/ DestroyDelete(1)
  \/ DestroyRelease(1)
  \/ DispatchTake
  \/ DispatchLookup
  \/ DispatchPush

SpecBatch == InitBatch /\ [][NextBatch]_vars

(***************************************************************************)
(* A subscription whose subscriber has stopped reading the notifications   *)
(* channel.                                                                *)
(***************************************************************************)

\* A notification the processor has emitted.
Emitted == [typ |-> "AGTJobEnd", payload |-> "", fields |-> {}]

\* State of a client with a subscription whose subscriber has stopped
\* reading: the channel (capacity 128) holds 127 notifications, the
\* processor is at the send of the next one (proto.go, line 358) and one more
\* notification event waits in the slot's inbox.  The frames read so far are
\* not counted in nread.
InitFull ==
  /\ state = ConnOK
  /\ connClosed = FALSE
  /\ eventsClosed = FALSE
  /\ notifications = [created |-> TRUE, closed |-> FALSE,
                      buf |-> [i \in 1..(NotifCap - 1) |-> Emitted]]
  /\ pool = NewInvokeIDPool
  /\ requests = MapPut(<< >>, MaxUint32, NotifReq)
  /\ \E sh \in NotificationShapes :
       inbox = [r \in Reqs |->
                  IF r = NotifReq
                    THEN << [kw |-> sh.kw, typ |-> "N", id |-> MaxUint32,
                             segs |-> sh.segs, inc |-> FALSE, org |-> 0,
                             wid |-> 0, seq |-> 0] >>
                    ELSE <<>>]
  /\ ctxDone = [r \in Reqs |-> FALSE]
  /\ wire = {}
  /\ stream = <<>>
  /\ nread = 0
  /\ script = <<>>
  /\ rpc = "read"
  /\ dpc = "select"
  /\ dEv = NoEvent
  /\ dReq = NoReq
  /\ dErr = "nil"
  /\ dRet = "running"
  /\ pc = [c \in Callers |-> "idle"]
  /\ kw = [c \in Callers |-> ""]
  /\ tag = [c \in Callers |-> 0]
  /\ err = [c \in Callers |-> "none"]
  /\ batch = [c \in Callers |-> FALSE]
  /\ dataSegments = [c \in Callers |-> <<>>]
  /\ released = [c \in Callers |-> 0]
  /\ startedClosed = [c \in Callers |-> FALSE]
  /\ atShutdown = {}
  /\ npc = "send"
  /\ nOut = Emitted
  /\ nLocals = NoLocals
  /\ notifications2 = [created |-> FALSE, closed |-> FALSE, buf |-> <<>>]
  /\ npc2 = "none"
  /\ nOut2 = NoNotification
  /\ nLocals2 = NoLocals
  /\ got = 0
  /\ ids = {}
  /\ rec = ""
  /\ cIn = NoInput
  /\ cRaw = NoOutput
  /\ cEv = NoOutput
  /\ reads = <<>>
  /\ emitted = <<>>
  /\ readerErr = "none"

\* The client, the first SubscribedCallers callers and the notification
\* processor; nobody receives from the notifications channel.
NextFull ==
  \/ \E c \in 1..SubscribedCallers : Command(c)
  \/ \E c \in 1..SubscribedCallers : ParentCancel(c)
  \/ ParentCancel(NotifReq)
  \/ Dispatcher
  \/ NotifyEvent
  \/ NotifySend
  \/ NotifyCanceled
  \/ NotifyUnregister

SpecFull == InitFull /\ [][NextFull]_vars

(***************************************************************************)
(* The invoke-ID pool used alone, as its tests use it: any sequence of Get *)
(* and Release, which ends at the first panic.                             *)
(***************************************************************************)

MaxTags == 6

\* The message of the panic of Release(t), or "" when it does not panic.
PoolReleaseError(p, t) ==
  IF t < 1 \/ t > p.maxUsed THEN "invalid value"
  ELSE IF t \in p.used THEN "already recycled"
  ELSE ""

\* Everything but the pool, its user, the user of the codec and the frame
\* reader on its own.
restVarsButFrame ==
  <<clientVars, readerVars, dispVars, notifVars, sub2Vars, histVars, requests,
    inbox, ctxDone, wire, stream, pc, kw, tag, err, batch, dataSegments>>

\* Everything but the pool, its user and the user of the codec.
restVarsButCodec == <<restVarsButFrame, frameVars>>

\* Everything but the pool and its user.
restVars == <<restVarsButCodec, codecVars>>

\* pool.Get().
PoolUserGet ==
  /\ rec = ""
  /\ Cardinality(ids) < MaxTags
  /\ got' = PoolGetID(pool)
  /\ ids' = ids \cup {PoolGetID(pool)}
  /\ pool' = PoolGet(pool)
  /\ UNCHANGED <<rec, restVars>>

\* pool.Release(t), for a tag the user holds or any other number.
PoolUserRelease(t) ==
  /\ rec = ""
  /\ IF PoolReleasePanics(pool, t)
       THEN /\ rec' = PoolReleaseError(pool, t)
            /\ UNCHANGED <<pool, ids>>
       ELSE /\ pool' = PoolRelease(pool, t)
            /\ ids' = ids \ {t}
            /\ UNCHANGED rec
  /\ got' = 0
  /\ UNCHANGED restVars

NextPool ==
  \/ PoolUserGet
  \/ \E t \in 0..(MaxTags + 1) : PoolUserRelease(t)

SpecPool == Init /\ [][NextPool]_vars

(***************************************************************************)
(* A subscription and a server that sends a call notification: two data    *)
(* frames and the final notification, all with the keyword AGTCallNotify.  *)
(***************************************************************************)

MaxFields == 2

\* The K,V segments of a call notification, and one segment without a comma.
FieldSegments == {"CURPHONE,3", "CURPHONE,4", "DEBT_ID,42", "BROKEN"}

CallFrame(segs) ==
  [kw |-> "AGTCallNotify", typ |-> "N", segs |-> segs, inc |-> FALSE, payload |-> <<>>]

\* The scripts of a call notification: the first data frame, the second data
\* frame with the fields, the successful notification.
CallScripts ==
  UNION { { << CallFrame(<<"0", "M00001">>),
               CallFrame(<<"0", "M00001">> \o fs),
               CallFrame(<<"0", "M00000">>) >>
            : fs \in [1..n -> FieldSegments] }
          : n \in 0..MaxFields }

\* State after Client.Notifications has returned: the channel is made, the
\* slot is registered and the processor is at its select.
InitCall ==
  /\ state = ConnOK
  /\ connClosed = FALSE
  /\ eventsClosed = FALSE
  /\ notifications = [created |-> TRUE, closed |-> FALSE, buf |-> <<>>]
  /\ pool = NewInvokeIDPool
  /\ requests = MapPut(<< >>, MaxUint32, NotifReq)
  /\ inbox = [r \in Reqs |-> <<>>]
  /\ ctxDone = [r \in Reqs |-> FALSE]
  /\ wire = {}
  /\ stream = <<>>
  /\ nread = 0
  /\ script \in CallScripts
  /\ rpc = "read"
  /\ dpc = "select"
  /\ dEv = NoEvent
  /\ dReq = NoReq
  /\ dErr = "nil"
  /\ dRet = "running"
  /\ pc = [c \in Callers |-> "idle"]
  /\ kw = [c \in Callers |-> ""]
  /\ tag = [c \in Callers |-> 0]
  /\ err = [c \in Callers |-> "none"]
  /\ batch = [c \in Callers |-> FALSE]
  /\ dataSegments = [c \in Callers |-> <<>>]
  /\ released = [c \in Callers |-> 0]
  /\ startedClosed = [c \in Callers |-> FALSE]
  /\ atShutdown = {}
  /\ npc = "run"
  /\ nOut = NoNotification
  /\ nLocals = NoLocals
  /\ notifications2 = [created |-> FALSE, closed |-> FALSE, buf |-> <<>>]
  /\ npc2 = "none"
  /\ nOut2 = NoNotification
  /\ nLocals2 = NoLocals
  /\ got = 0
  /\ ids = {}
  /\ rec = ""
  /\ cIn = NoInput
  /\ cRaw = NoOutput
  /\ cEv = NoOutput
  /\ reads = <<>>
  /\ emitted = <<>>
  /\ readerErr = "none"

\* The dispatcher and the notification processor; the notifications stay in
\* the channel until the subscriber receives them.
NextCall ==
  \/ DispatchTake
  \/ DispatchLookup
  \/ DispatchPush
  \/ NotifyEvent
  \/ NotifySend

SpecCall == InitCall /\ [][NextCall]_vars

\* A client on which Notifications is called twice; no command method is
\* called.
NextSubs ==
  \/ Subscription
  \/ SubscriptionAgain
  \/ ParentCancel(NotifReq)
  \/ ParentCancel(NotifReq2)
  \/ Dispatcher

SpecSubs == Init /\ [][NextSubs]_vars

TypeOK ==
  /\ state \in {ConnOK, ConnClosed}
  /\ pool.maxUsed \in 0..(IF ids = {} /\ rec = "" THEN NumCallers ELSE MaxTags)
  /\ pool.used \subseteq 1..pool.maxUsed
  /\ \A r \in Reqs : Len(inbox[r]) <= InboxCap
  /\ nread \in 0..(IF Len(script) > MaxEvents THEN Len(script) ELSE MaxEvents)

(***************************************************************************)
(* The codec (proto.go): encodeCommand and decodeEvent on frames that are  *)
(* sequences of bytes.  A byte is a one-character string, or one of the    *)
(* three control bytes.                                                    *)
(***************************************************************************)
RS == "RS"
ETB == "ETB"
ETX == "ETX"
SP == " "

HeaderLen == 55
KeywordWidth == 20
ClientWidth == 20
ProcessIDWidth == 6
InvokeIDWidth == 4
SegmentCountWidth == 4

DigitChars == <<"0", "1", "2", "3", "4", "5", "6", "7", "8", "9">>

\* strconv.Itoa for a number that is not negative.
RECURSIVE Itoa(_)
Itoa(n) ==
  IF n < 10 THEN <<DigitChars[n + 1]>>
  ELSE Append(Itoa(n \div 10), DigitChars[(n % 10) + 1])

\* fmt.Sprintf("%-Ns", s): s, padded with spaces on the right to the width;
\* a longer s is not cut.
PadRight(s, width) ==
  IF Len(s) >= width THEN s ELSE s \o [i \in 1..(width - Len(s)) |-> SP]

\* The arguments, with RS between them (lines 160-166).
RECURSIVE JoinRS(_)
JoinRS(args) ==
  IF Len(args) = 0 THEN <<>>
  ELSE IF Len(args) = 1 THEN args[1]
  ELSE args[1] \o <<RS>> \o JoinRS(Tail(args))

\* encodeCommand: the error, or the frame.
encodeCommand(keyword, invokeID, args) ==
  IF EncodeError(keyword, invokeID) # "none"
    THEN [done |-> TRUE, err |-> EncodeError(keyword, invokeID), b |-> <<>>]
    ELSE [done |-> TRUE, err |-> "none",
          b |-> PadRight(keyword, KeywordWidth)
                \o <<"C">>
                \o PadRight(<<"G", "o", "l", "a", "n", "g">>, ClientWidth)
                \o PadRight(Itoa(0), ProcessIDWidth)
                \o PadRight(Itoa(invokeID), InvokeIDWidth)
                \o PadRight(Itoa(Len(args)), SegmentCountWidth)
                \o (IF Len(args) > 0 THEN <<RS>> \o JoinRS(args) ELSE <<>>)
                \o <<ETX>>]

\* strings.TrimSpace.
RECURSIVE TrimLeft(_)
TrimLeft(s) == IF Len(s) > 0 /\ s[1] = SP THEN TrimLeft(Tail(s)) ELSE s
RECURSIVE TrimRight(_)
TrimRight(s) ==
  IF Len(s) > 0 /\ s[Len(s)] = SP THEN TrimRight(SubSeq(s, 1, Len(s) - 1)) ELSE s
TrimSpace(s) == TrimRight(TrimLeft(s))

IsDigit(ch) == \E i \in 1..10 : DigitChars[i] = ch
DigitValue(ch) == (CHOOSE i \in 1..10 : DigitChars[i] = ch) - 1

\* strconv.Atoi on a string without a sign: the value of a non-empty string
\* of digits, an error for anything else.
RECURSIVE AtoiValue(_)
AtoiValue(s) ==
  IF Len(s) = 0 THEN 0
  ELSE 10 * AtoiValue(SubSeq(s, 1, Len(s) - 1)) + DigitValue(s[Len(s)])
AtoiOK(s) == Len(s) > 0 /\ \A i \in 1..Len(s) : IsDigit(s[i])

\* strings.Split(s, RS): the pieces between the separators; one empty piece
\* for the empty string.
RECURSIVE Split(_)
Split(s) ==
  IF \A i \in 1..Len(s) : s[i] # RS THEN <<s>>
  ELSE LET i == CHOOSE j \in 1..Len(s) :
                  s[j] = RS /\ \A h \in 1..(j - 1) : s[h] # RS
       IN <<SubSeq(s, 1, i - 1)>> \o Split(SubSeq(s, i + 1, Len(s)))

HasSuffix(s, ch) == Len(s) > 0 /\ s[Len(s)] = ch
TrimSuffix(s, ch) == IF HasSuffix(s, ch) THEN SubSeq(s, 1, Len(s) - 1) ELSE s

\* The last piece without its ETB and then without its ETX (lines 222-229).
LastSegment(s) == TrimSuffix(TrimSuffix(s, ETB), ETX)

\* decodeEvent that splits the payload from the byte after the header, the
\* separator that opens the payload included.
DecodeSegmentsFromHeader(raw, numberOfSegments) ==
  IF numberOfSegments > 0 /\ Len(raw) > HeaderLen + 1
    THEN LET segments == Split(SubSeq(raw, HeaderLen + 1, Len(raw)))
         IN [i \in 1..Len(segments) |->
               IF i = Len(segments) THEN LastSegment(segments[i])
               ELSE segments[i]]
    ELSE <<>>

\* The segments decodeEvent appends (lines 217-233).
DecodeSegments(raw, numberOfSegments) ==
  IF numberOfSegments > 0 /\ Len(raw) > HeaderLen + 1
    THEN LET segments == Split(SubSeq(raw, HeaderLen + 2, Len(raw)))
         IN [i \in 1..Len(segments) |->
               IF i = Len(segments) THEN LastSegment(segments[i])
               ELSE segments[i]]
    ELSE <<>>

DecodeIncomplete(raw, numberOfSegments) ==
  /\ numberOfSegments > 0
  /\ Len(raw) > HeaderLen + 1
  /\ LET segments == Split(SubSeq(raw, HeaderLen + 2, Len(raw)))
     IN HasSuffix(segments[Len(segments)], ETB)

DecodeFailure(text) == [done |-> TRUE, err |-> text]

\* decodeEvent: the error, or the event.
decodeEvent(raw) ==
  IF Len(raw) < HeaderLen + 1
    THEN DecodeFailure("event len should be less or equal to 55 bytes")
  ELSE IF ~AtoiOK(TrimSpace(SubSeq(raw, 42, 47)))
    THEN DecodeFailure("cannot parse process id as int")
  ELSE IF ~AtoiOK(TrimSpace(SubSeq(raw, 48, 51)))
    THEN DecodeFailure("cannot parse invoke id as int")
  ELSE IF ~AtoiOK(TrimSpace(SubSeq(raw, 52, 55)))
    THEN DecodeFailure("cannot parse number of segments as int")
  ELSE LET numberOfSegments == AtoiValue(TrimSpace(SubSeq(raw, 52, 55)))
       IN [done |-> TRUE, err |-> "none",
           Keyword |-> TrimSpace(SubSeq(raw, 1, 20)),
           Type |-> raw[21],
           Client |-> TrimSpace(SubSeq(raw, 22, 41)),
           ProcessID |-> AtoiValue(TrimSpace(SubSeq(raw, 42, 47))),
           InvokeID |-> AtoiValue(TrimSpace(SubSeq(raw, 48, 51))),
           Segments |-> DecodeSegments(raw, numberOfSegments),
           IsIncomplete |-> DecodeIncomplete(raw, numberOfSegments)]

\* The arguments the codec is tried with.
MaxKeywordChars == 2
MaxSegments == 2
MaxSegmentChars == 2
LongKeyword(n) == [i \in 1..n |-> "A"]
CodecKeywords ==
  UNION {[1..n -> {"A", SP}] : n \in 0..MaxKeywordChars}
    \cup {LongKeyword(MaxKeywordLen), LongKeyword(MaxKeywordLen + 1)}
CodecInvokeIDs == {0, 7, 42, 9999, 10000}
CodecSegments ==
  UNION {[1..n -> {"x", ","}] : n \in 0..MaxSegmentChars} \cup {<<"x", ETB>>}
CodecArgs == UNION {[1..n -> CodecSegments] : n \in 0..MaxSegments}

\* A caller picks the arguments.
CodecPick ==
  /\ ~cIn.picked
  /\ \E k \in CodecKeywords, i \in CodecInvokeIDs, a \in CodecArgs :
       cIn' = [picked |-> TRUE, keyword |-> k, invokeID |-> i, args |-> a]
  /\ UNCHANGED <<cRaw, cEv, pool, poolUserVars, restVarsButCodec>>

\* encodeCommand(keyword, invokeID, args...).
CodecEncode ==
  /\ cIn.picked
  /\ ~cRaw.done
  /\ cRaw' = encodeCommand(cIn.keyword, cIn.invokeID, cIn.args)
  /\ UNCHANGED <<cIn, cEv, pool, poolUserVars, restVarsButCodec>>

\* decodeEvent(string(b)) of the frame encodeCommand returned.
CodecDecode ==
  /\ cRaw.done
  /\ cRaw.err = "none"
  /\ ~cEv.done
  /\ cEv' = decodeEvent(cRaw.b)
  /\ UNCHANGED <<cIn, cRaw, pool, poolUserVars, restVarsButCodec>>

NextCodec == CodecPick \/ CodecEncode \/ CodecDecode

SpecCodec == Init /\ [][NextCodec]_vars

(***************************************************************************)
(* A graceful logoff: the Logoff method of the first caller has sent its    *)
(* command and waits; the server answers with pending events and a         *)
(* successful response; no parent scope is cancelled.                      *)
(***************************************************************************)
InitLogoff ==
  /\ state = ConnOK
  /\ connClosed = FALSE
  /\ eventsClosed = FALSE
  /\ notifications = [created |-> FALSE, closed |-> FALSE, buf |-> <<>>]
  /\ pool = PoolGet(NewInvokeIDPool)
  /\ requests = MapPut(<< >>, 1, 1)
  /\ inbox = [r \in Reqs |-> <<>>]
  /\ ctxDone = [r \in Reqs |-> FALSE]
  /\ script \in PendingScripts
  /\ kw = [c \in Callers |-> IF c = 1 THEN "AGTLogoff" ELSE ""]
  /\ wire = {[kw |-> "AGTLogoff", id |-> 1, by |-> 1]}
  /\ stream = FrameBytes(1)
  /\ nread = 0
  /\ rpc = "read"
  /\ dpc = "select"
  /\ dEv = NoEvent
  /\ dReq = NoReq
  /\ dErr = "nil"
  /\ dRet = "running"
  /\ pc = [c \in Callers |-> IF c = 1 THEN "wait" ELSE "idle"]
  /\ tag = [c \in Callers |-> IF c = 1 THEN 1 ELSE 0]
  /\ err = [c \in Callers |-> "none"]
  /\ batch = [c \in Callers |-> FALSE]
  /\ dataSegments = [c \in Callers |-> <<>>]
  /\ released = [c \in Callers |-> 0]
  /\ startedClosed = [c \in Callers |-> FALSE]
  /\ atShutdown = {}
  /\ npc = "none"
  /\ nOut = NoNotification
  /\ nLocals = NoLocals
  /\ notifications2 = [created |-> FALSE, closed |-> FALSE, buf |-> <<>>]
  /\ npc2 = "none"
  /\ nOut2 = NoNotification
  /\ nLocals2 = NoLocals
  /\ got = 0
  /\ ids = {}
  /\ rec = ""
  /\ cIn = NoInput
  /\ cRaw = NoOutput
  /\ cEv = NoOutput
  /\ reads = <<>>
  /\ emitted = <<>>
  /\ readerErr = "none"

NextLogoff ==
  \/ ProcessEvent(1)
  \/ ProcessCanceled(1)
  \/ DestroyLookup(1)
  \/ DestroyDelete(1)
  \/ DestroyRelease(1)
  \/ Dispatcher

SpecLogoff == InitLogoff /\ [][NextLogoff]_vars

(***************************************************************************)
(* The frame reader (Client.readEvents) on the bytes of the transport: what *)
(* it does with the buffer of each read.                                   *)
(***************************************************************************)

\* The frames a server sends: a complete frame without segments, and a frame
\* with a segment that is to be continued (ETB in place of ETX).
FrameA == encodeCommand(<<"A">>, 1, <<>>).b
FrameB ==
  LET b == encodeCommand(<<"A">>, 2, <<<<"x">>>>).b
  IN SubSeq(b, 1, Len(b) - 1) \o <<ETB>>

\* The front of a frame that the transport delivers in two reads, and its rest.
SplitAt == 30
FrameFront(f) == SubSeq(f, 1, SplitAt)
FrameRest(f) == SubSeq(f, SplitAt + 1, Len(f))

\* What one read may return: a frame, two frames at once, a part of a frame.
ReadBuffers ==
  {FrameA, FrameB, FrameA \o FrameB, FrameFront(FrameA), FrameRest(FrameA),
   FrameFront(FrameB)}

MaxReads == 3

\* The buffer ends a frame (line 317).
EndsFrame(b) == b[Len(b)] = ETX \/ b[Len(b)] = ETB

\* readEvents that keeps the bytes of a read that does not end a frame and
\* puts them in front of the bytes of the next read.
ReaderReadCarryOver ==
  /\ readerErr = "none"
  /\ Len(reads) < MaxReads
  /\ \E b \in ReadBuffers :
       LET kept == IF reads # <<>> /\ ~EndsFrame(reads[Len(reads)])
                     THEN reads[Len(reads)] ELSE <<>>
           raw == kept \o b
       IN /\ reads' = Append(reads, b)
          /\ IF EndsFrame(b)
               THEN IF decodeEvent(raw).err # "none"
                      THEN /\ readerErr' = decodeEvent(raw).err
                           /\ UNCHANGED emitted
                      ELSE /\ emitted' = Append(emitted,
                                [read |-> Len(reads) + 1, event |-> decodeEvent(raw)])
                           /\ UNCHANGED readerErr
               ELSE UNCHANGED <<emitted, readerErr>>
  /\ UNCHANGED <<codecVars, pool, poolUserVars, restVarsButFrame>>

\* readEvents, lines 302-342: one pass of the loop with a read that returns
\* bytes.  A buffer that ends in ETX or ETB is decoded as a whole, and the
\* event is sent or the decoding error returned; any other buffer is dropped
\* with the next pass's new buffer.
ReaderRead ==
  /\ readerErr = "none"
  /\ Len(reads) < MaxReads
  /\ \E b \in ReadBuffers :
       /\ reads' = Append(reads, b)
       /\ IF EndsFrame(b)
            THEN IF decodeEvent(b).err # "none"
                   THEN /\ readerErr' = decodeEvent(b).err
                        /\ UNCHANGED emitted
                   ELSE /\ emitted' = Append(emitted,
                             [read |-> Len(reads) + 1, event |-> decodeEvent(b)])
                        /\ UNCHANGED readerErr
            ELSE UNCHANGED <<emitted, readerErr>>
  /\ UNCHANGED <<codecVars, pool, poolUserVars, restVarsButFrame>>

\* readEvents, lines 306-314: the read fails; readEvents returns the error.
ReaderReadFails ==
  /\ readerErr = "none"
  /\ \E x \in {"ConnectionClosed", "ReadErr"} : readerErr' = x
  /\ UNCHANGED <<reads, emitted, codecVars, pool, poolUserVars, restVarsButFrame>>

NextReader == ReaderRead \/ ReaderReadFails

SpecReader == Init /\ [][NextReader]_vars

(***************************************************************************)
(* Properties.                                                             *)
(***************************************************************************)

\* The sequence numbers (positions on the wire) of the events in an inbox.
InboxSeqs(q) == {q[i].seq : i \in 1..Len(q)}

\* C1: an event the dispatcher took with invoke id t goes, when a request is
\* registered under t at the lookup, into that request's inbox and no other,
\* once (the dispatcher holds it until the push and forgets it with the push);
\* when no request is registered under t the dispatcher drops it and the step
\* changes no inbox, no registry entry and not the pool.  Nothing but the push
\* of the looked-up event ever adds an event to an inbox.
C1_DispatchCorrelation ==
  [][ /\ (dpc = "lookup" /\ dpc' # "lookup" /\ dEv.id \in DOMAIN requests) =>
            /\ dpc' = "push"
            /\ dReq' = requests[dEv.id]
            /\ dEv' = dEv
            /\ inbox' = inbox
      /\ (dpc = "lookup" /\ dpc' # "lookup" /\ dEv.id \notin DOMAIN requests) =>
            /\ dpc' = "select"
            /\ dEv' = NoEvent
            /\ inbox' = inbox
            /\ requests' = requests
            /\ pool' = pool
      /\ (dpc = "push" /\ dpc' # "push") =>
            /\ inbox' = [inbox EXCEPT ![dReq] = Append(@, dEv)]
            /\ dpc' = "select"
            /\ dEv' = NoEvent
      /\ (dpc = "push" /\ dpc' = "push") => (dEv' = dEv /\ dReq' = dReq)
      /\ \A r \in Reqs :
           InboxSeqs(inbox'[r]) \ InboxSeqs(inbox[r]) # {} =>
             /\ dpc = "push"
             /\ r = dReq
             /\ dEv.id \in {MaxUint32} \cup {f.id : f \in wire}
             /\ InboxSeqs(inbox'[r]) \ InboxSeqs(inbox[r]) = {dEv.seq}
    ]_vars

\* C1, its case: a waiting command method whose inbox holds the reply to its
\* own frame, while an event with an unknown tag was dropped before.
C1_Witness ==
  \E c \in Callers :
    /\ pc[c] = "wait"
    /\ inbox[c] # <<>>
    /\ Head(inbox[c]).id = tag[c]
    /\ Head(inbox[c]).org = c
    /\ Head(inbox[c]).seq = 2
    /\ requests[tag[c]] = c

\* C2: once the dispatcher has returned from a shutdown, every request that
\* was registered when the shutdown began and whose command method still waits
\* has had its cancellation handle fired (nothing fires it afterwards, so a
\* method that waits without it waits forever).
C2_ShutdownCompleteness ==
  dpc = "returned" =>
    \A c \in atShutdown \cap Callers : pc[c] = "wait" => ctxDone[c]

\* The command methods that hold a tag: between Get and Release.
Live(c) == pc[c] \in {"check", "write", "register", "wait", "destroy", "delete", "release"}

\* C3: a command method whose invokeCommand started after the state became
\* Closed goes from the state check straight to its return with
\* ConnectionClosed, its frame is never on the transport and its request never
\* in the registry; when it has returned its tag was released once and the pool
\* holds exactly the tags of the other methods in progress.
C3_ClosedInvoke ==
  \A c \in Callers : startedClosed[c] =>
    /\ pc[c] \in {"check", "destroy", "release", "done"}
    /\ pc[c] \in {"destroy", "release", "done"} => err[c] = "ConnectionClosed"
    /\ c \notin Registered
    /\ \A f \in wire : f.by # c
    /\ pc[c] = "done" =>
         /\ released[c] = 1
         /\ PoolHeld(pool) = {tag[d] : d \in {x \in Callers : Live(x)}}

\* C3, its case: a method that started on a closed client has returned
\* ConnectionClosed while the transport was still open for writing when it
\* started.
C3_Witness ==
  \E c \in Callers :
    /\ startedClosed[c]
    /\ pc[c] = "done"
    /\ err[c] = "ConnectionClosed"
    /\ released[c] = 1

\* C4: in every state the command methods that hold a tag hold different
\* tags, all of them handed out by the pool and not given back, and the tag
\* Get would return next is none of them; every registry entry of a command
\* is the request of the one live method that holds its tag, and no step
\* replaces the request registered under a tag by another one.
C4_TagUniqueness ==
  /\ [](/\ \A c, d \in Callers : (Live(c) /\ Live(d) /\ c # d) => tag[c] # tag[d]
        /\ \A c \in Callers : Live(c) => tag[c] \in PoolHeld(pool)
        /\ PoolGetID(pool) \notin PoolHeld(pool)
        /\ \A t \in DOMAIN requests \ {MaxUint32} :
             Live(requests[t]) /\ tag[requests[t]] = t)
  /\ [][\A t \in DOMAIN requests :
          t \in DOMAIN requests' => requests'[t] = requests[t]]_vars

\* C4, its case: two command methods are registered at the same time, and the
\* second one's Get ran while the first held its tag.
C4_Witness ==
  /\ pc[1] = "wait" /\ pc[2] = "wait"
  /\ DOMAIN requests = {1, 2}
  /\ requests[tag[1]] = 1 /\ requests[tag[2]] = 2

\* C5: a command method returns only through the Release of its tag, which
\* never panics; at the return the tag has been released exactly once (and not
\* at all before), the tag is no longer held and the registry has no entry
\* under it nor for the method's request; once all command methods have
\* returned the pool is as new.
C5_TagReleased ==
  /\ [](/\ \A c \in Callers :
             /\ pc[c] # "panic"
             /\ released[c] = (IF pc[c] = "done" THEN 1 ELSE 0)
             /\ pc[c] = "done" => c \notin Registered
        /\ (\A c \in Callers : pc[c] = "done") => pool = NewInvokeIDPool)
  /\ [][\A c \in Callers : (pc[c] # "done" /\ pc'[c] = "done") =>
          /\ pc[c] = "release"
          /\ tag[c] \in PoolHeld(pool)
          /\ tag[c] \notin PoolHeld(pool')
          /\ tag[c] \notin DOMAIN requests']_vars

\* C5, its case: all command methods have returned, one after a cancellation
\* and one with the error of the server's response.
C5_Witness ==
  /\ pc[1] = "done" /\ pc[2] = "done"
  /\ err[1] = "Canceled"
  /\ err[2] \in ErrorCodes
  /\ released[1] = 1 /\ released[2] = 1

\* C6: the events reach an inbox in the order of the wire.  The event the
\* dispatcher holds is the one read last, later on the wire than every event
\* in any inbox; every inbox is in wire order; the count of frames read never
\* goes down; and an inbox changes only by losing its head (to its request's
\* processor) or by gaining the dispatcher's event at its tail.
C6_WireOrder ==
  /\ [](/\ dpc \in {"lookup", "push"} =>
             /\ dEv.seq = nread
             /\ \A r \in Reqs : \A i \in 1..Len(inbox[r]) : inbox[r][i].seq < dEv.seq
        /\ \A r \in Reqs : \A i, j \in 1..Len(inbox[r]) :
             i < j => inbox[r][i].seq < inbox[r][j].seq
        /\ \A r \in Reqs : \A i \in 1..Len(inbox[r]) : inbox[r][i].seq \in 1..nread)
  /\ [][/\ nread' >= nread
        /\ \A r \in Reqs :
             \/ inbox'[r] = inbox[r]
             \/ inbox[r] # <<>> /\ inbox'[r] = Tail(inbox[r])
             \/ /\ dpc = "push" /\ r = dReq
                /\ inbox'[r] = Append(inbox[r], dEv)]_vars

\* C6, its case: a request processor has taken the first frame of the wire, an
\* incomplete data message, and the second frame, for the same tag, is in its
\* inbox.
C6_Witness ==
  \E c \in Callers :
    /\ pc[c] = "wait"
    /\ batch[c]
    /\ dataSegments[c] # <<>>
    /\ inbox[c] # <<>>
    /\ Head(inbox[c]).seq = 2
    /\ Head(inbox[c]).id = tag[c]

\* C7: an event that answers the frame of a command method which was
\* cancelled and has destroyed its request is in no other request's inbox.
C7_LateEventDropped ==
  \A c \in Callers : \A i \in 1..Len(inbox[c]) :
    LET o == inbox[c][i].org IN
      (o \in Callers /\ o # c) => ~(pc[o] = "done" /\ err[o] = "Canceled")

\* C8 as stated: a command method that leaves its wait after its parent's
\* cancellation fired (the client is open, so no shutdown fired it) has the
\* cancellation error as its result.
C8_CancelAlwaysWins ==
  \A c \in Callers :
    (state = ConnOK /\ ctxDone[c] /\ pc[c] \in {"destroy", "delete", "release"}) =>
      err[c] = "Canceled"

\* C8 as amended: a waiting command method whose cancellation has fired can
\* always take the cancellation case, whatever its inbox holds, and from there
\* every step of its destroyCommand up to the Release of its tag is enabled
\* and does not panic; it leaves the wait either by the cancellation case,
\* with the cancellation error and its inbox untouched, or by taking the event
\* at the head of its inbox, with that event's result.
C8_CancelReturns ==
  /\ [](\A c \in Callers :
          /\ (pc[c] = "wait" /\ ctxDone[c]) => ENABLED ProcessCanceled(c)
          /\ pc[c] = "destroy" => ENABLED DestroyLookup(c)
          /\ pc[c] = "delete" => ENABLED DestroyDelete(c)
          /\ pc[c] = "release" => (ENABLED DestroyRelease(c) /\ ~PoolReleasePanics(pool, tag[c]))
          /\ pc[c] = "done" => released[c] = 1)
  /\ [][\A c \in Callers :
          (pc[c] = "wait" /\ ctxDone[c] /\ pc'[c] # "wait") =>
            /\ pc'[c] = "destroy"
            /\ \/ err'[c] = "Canceled" /\ inbox'[c] = inbox[c]
               \/ /\ inbox[c] # <<>>
                  /\ inbox'[c] = Tail(inbox[c])
                  /\ ~IsPending(Head(inbox[c]))
                  /\ err'[c] \in {"none", "UnexpectedEvent"} \cup ErrorCodes]_vars

\* C8, its case: on an open client on which no frame was ever read, a command
\* method has returned the cancellation error and released its tag.
C8_Witness ==
  \E c \in Callers :
    /\ state = ConnOK
    /\ nread = 0
    /\ pc[c] = "done"
    /\ err[c] = "Canceled"
    /\ released[c] = 1

\* C9: every notification the dispatcher holds carries the notification slot
\* tag, whatever invoke id it had on the wire; with the slot registered its
\* lookup finds the notification request and nothing else, so that the push
\* goes to the notification request's inbox; no command request's inbox ever
\* holds a notification, and the notification request's inbox holds nothing
\* else.
C9_NotificationRewrite ==
  /\ [](/\ (dpc \in {"lookup", "push"} /\ dEv.typ = "N") => dEv.id = MaxUint32
        /\ (dpc = "push" /\ dEv.typ = "N") => dReq = NotifReq
        /\ \A c \in Callers : \A i \in 1..Len(inbox[c]) : inbox[c][i].typ # "N"
        /\ \A i \in 1..Len(inbox[NotifReq]) : inbox[NotifReq][i].typ = "N")
  /\ [][(dpc = "lookup" /\ dEv.typ = "N" /\ dpc' # "lookup") =>
          IF MaxUint32 \in DOMAIN requests
            THEN dpc' = "push" /\ dReq' = NotifReq /\ dEv' = dEv
            ELSE dpc' = "select" /\ inbox' = inbox]_vars

\* C9, its case: a notification whose invoke id on the wire is the tag of a
\* registered, waiting command request is in the notification request's inbox.
C9_Witness ==
  /\ inbox[NotifReq] # <<>>
  /\ Head(inbox[NotifReq]).typ = "N"
  /\ \E c \in Callers :
       /\ pc[c] = "wait"
       /\ inbox[c] = <<>>
       /\ Head(inbox[NotifReq]).wid = tag[c]
       /\ tag[c] \in DOMAIN requests
       /\ requests[tag[c]] = c

\* C10: the steps of a shutdown are taken in their order (the transport is
\* closed only on a client marked Closed, the channels only after the
\* transport), and when the dispatcher has returned all of them were taken: the
\* state is Closed, the transport is closed, the notifications channel, if
\* there is one, is closed, the event channel is closed and every request that
\* was registered at the shutdown and still is has had its cancellation handle
\* fired.
C10_ShutdownSteps ==
  /\ connClosed => state = ConnClosed
  /\ eventsClosed => connClosed
  /\ notifications.closed => connClosed
  /\ dpc = "returned" =>
       /\ state = ConnClosed
       /\ connClosed
       /\ notifications.created => notifications.closed
       /\ eventsClosed
       /\ \A r \in atShutdown \cap Registered : ctxDone[r]

\* C11: the value Start has returned is the value the reader published on
\* the shutdown channel: ConnectionClosed, the read or decode error, or nil,
\* which the reader publishes only after it has left its loop on a successful
\* logoff response.
C11_StartReturnsReaderResult ==
  /\ dpc = "returned" => dRet = dErr
  /\ dpc # "returned" => dRet = "running"
  /\ dErr \in {"nil", "ConnectionClosed", "ReadErr", "DecodeErr"}

\* C12: the reader leaves its loop (to publish nil) only right after it handed
\* a successful AGTLogoff response to the dispatcher; and when Start has
\* returned from the shutdown that the nil started, the whole shutdown
\* sequence was run and Start returned no error.
C12_GracefulLogoff ==
  /\ (rpc = "publish" /\ dpc = "lookup") =>
       (IsSuccessfulResponse(dEv) /\ dEv.kw = "AGTLogoff")
  /\ (dpc = "returned" /\ dErr = "nil") =>
       /\ dRet = "nil"
       /\ state = ConnClosed
       /\ connClosed
       /\ eventsClosed

\* C13: when NewClient has returned because the first event was not the
\* startup notification, it has returned HelloNotReceived and the transport is
\* closed.
C13_StartupGuard ==
  dpc = "hello_failed" => (dRet = "HelloNotReceived" /\ connClosed)

\* C14: NewClient, while it waits for the first event, can always take its
\* next step: it is never left waiting for an event that cannot come.
C14_ConstructionTerminates ==
  dpc = "hello" => ENABLED NewClientHello

\* The script of scenario S3: three data frames, the first headed, all but
\* the last incomplete, and the successful response.
ScenarioS3 ==
  << HeadedFrame(<<"A,JOB_A,A", "A,JOB_B,A">>, TRUE),
     BareFrame(<<"A,JOB_C,I">>, TRUE),
     BareFrame(<<"A,JOB_D,A">>, FALSE),
     SuccessFrame >>

\* The frames of a script have all been read, dispatched and consumed.
ScriptConsumed ==
  /\ script # <<>>
  /\ nread = Len(script)
  /\ dpc = "select"
  /\ inbox[1] = <<>>

\* C15: batch assembly.  After a sequence of data frames of which all but the
\* last are incomplete, followed by a successful response, the request
\* processor has returned without an error, and the jobs of its accumulated
\* segments are the jobs of the payloads of all the frames in arrival order,
\* none lost and none duplicated.
C15_BatchAssembly ==
  (script \in BatchScripts /\ ScriptConsumed) =>
    /\ pc[1] # "wait"
    /\ err[1] = "none"
    /\ ListJobsProjection(dataSegments[1]) = ScriptPayload(script)

\* Scenario S3 has returned its four jobs in order.
C15_ScenarioS3 ==
  (script = ScenarioS3 /\ ScriptConsumed) =>
    /\ pc[1] # "wait"
    /\ err[1] = "none"
    /\ ListJobsProjection(dataSegments[1]) = <<"JOB_A", "JOB_B", "JOB_C", "JOB_D">>

C17_PendingThenSuccess ==
  /\ []((script \in PendingScripts /\ ScriptConsumed) =>
          /\ pc[1] \in {"destroy", "delete", "release", "done"}
          /\ err[1] = "none"
          /\ dataSegments[1] = <<>>)
  /\ []((script \in PendingScripts /\ pc[1] = "done") =>
          /\ err[1] = "none"
          /\ PoolHeld(pool) = {}
          /\ 1 \notin Registered
          /\ DOMAIN requests = {})
  /\ [][\A c \in Callers :
          (/\ pc[c] = "wait"
           /\ inbox[c] # <<>>
           /\ inbox'[c] # inbox[c]
           /\ IsPending(Head(inbox[c])))
          => (/\ pc'[c] = "wait"
              /\ err'[c] = err[c]
              /\ batch'[c] = batch[c]
              /\ dataSegments'[c] = dataSegments[c])]_vars

\* Scenario S1: Logon answered with a Pending event and a SuccessResponse has
\* returned success and tag 1 is released.
C17_Witness ==
  /\ script = <<PendingFrame, SuccessFrame>>
  /\ kw[1] = ""
  /\ pc[1] = "done"
  /\ err[1] = "none"
  /\ released[1] = 1
  /\ pool = NewInvokeIDPool

\* The results of a request that failed by itself.
RequestFailures == ErrorCodes \cup {"UnexpectedEvent", "Canceled"}

\* The request processor of c has returned a failure of the request.
Failed(c) ==
  /\ pc[c] \in {"destroy", "delete", "release", "done"}
  /\ err[c] \in RequestFailures

\* C18: a failure of one request (AvayaError, UnexpectedEvent, cancellation)
\* ends only that request.  The step in which the processor returns the
\* failure leaves the client state, the transport, and every other request's
\* inbox and cancellation handle as they are, and the dispatcher is never left
\* blocked on the failed request: while the client is open, the event the
\* dispatcher holds for the failed request can be pushed.
C18_FailureIsLocal ==
  /\ [][\A c \in Callers :
          (pc[c] = "wait" /\ pc'[c] = "destroy" /\ err'[c] \in RequestFailures)
          => (/\ state' = state
              /\ connClosed' = connClosed
              /\ eventsClosed' = eventsClosed
              /\ \A r \in Reqs \ {c} : inbox'[r] = inbox[r] /\ ctxDone'[r] = ctxDone[r])]_vars
  /\ [](\A c \in Callers :
          (Failed(c) /\ state = ConnOK /\ dpc = "push" /\ dReq = c)
          => ENABLED DispatchPush)

\* The notification processor can take a step of its own.
ProcessorCanStep ==
  ENABLED NotifyEvent \/ ENABLED NotifySend \/ ENABLED NotifyCanceled
    \/ ENABLED NotifyUnregister

\* C19: a subscriber that has stopped reading blocks at most the notification
\* processor.  While the client is open and the subscription is not
\* cancelled, the dispatcher that holds an event for the notification slot can
\* push it, or the processor can still step and make room in the slot's inbox:
\* the dispatcher is never left blocked on the slot's inbox.
C19_SlowSubscriber ==
  (state = ConnOK /\ ~ctxDone[NotifReq] /\ dpc = "push" /\ dReq = NotifReq) =>
    (ENABLED DispatchPush \/ ProcessorCanStep)

\* C20: once the cancellation scope of the subscription has fired, the
\* notification processor is never stuck before its return, also while the
\* notifications channel is full: as long as it has not returned and removed
\* the slot, it can take a step.
C20_CancelEndsProcessor ==
  (ctxDone[NotifReq] /\ npc \in {"run", "send", "unregister"}) => ProcessorCanStep

\* The notification processors that are active: started and not returned.
ActiveProcessors ==
  (IF npc \in {"run", "send"} THEN {NotifReq} ELSE {})
    \cup (IF npc2 \in {"run", "send"} THEN {NotifReq2} ELSE {})

\* C21: at most one notification processor is active for a client, however
\* often Notifications is called, and the step in which an ended subscription
\* removes the slot from the registry never removes the slot of another
\* subscription whose processor is still active.
C21_OneProcessor ==
  /\ [](Cardinality(ActiveProcessors) <= 1)
  /\ [][(MaxUint32 \in DOMAIN requests /\ MaxUint32 \notin DOMAIN requests')
        => requests[MaxUint32] \notin ActiveProcessors]_vars

RECURSIVE FieldsOf(_)
\* The map of the K,V segments of a frame: every K mapped to its V (for a K
\* that occurs twice, to the later V).
FieldsOf(segs) ==
  IF segs = <<>> THEN {}
  ELSE LET last == segs[Len(segs)]
           rest == FieldsOf(SubSeq(segs, 1, Len(segs) - 1))
       IN IF Len(FieldParts(last)) = 2
            THEN FieldsPut(rest, FieldParts(last)[1], FieldParts(last)[2])
            ELSE rest

\* The frames of a call notification have been read, dispatched, assembled
\* and the notification is in the channel.
CallDelivered ==
  /\ script \in CallScripts
  /\ nread = Len(script)
  /\ dpc = "select"
  /\ inbox[NotifReq] = <<>>
  /\ npc = "run"

\* C22: call notification assembly.  After a first data notification, a
\* second one whose payload segments are K,V pairs and a successful
\* notification, all with the keyword AGTCallNotify, the channel of the
\* subscriber holds exactly one notification, of type AGTCallNotify, whose
\* payload maps every K of the second frame to its V.
C22_CallNotify ==
  CallDelivered =>
    /\ Len(notifications.buf) = 1
    /\ notifications.buf[1].typ = "AGTCallNotify"
    /\ notifications.buf[1].fields = FieldsOf(Body(script[2]))

C24_PoolGet ==
  [][(got' # 0 /\ <<pool, got, ids>>' # <<pool, got, ids>>) =>
       /\ IF pool.used # {}
            THEN /\ got' \in pool.used
                 /\ \A u \in pool.used : got' <= u
                 /\ pool'.used = pool.used \ {got'}
                 /\ pool'.maxUsed = pool.maxUsed
            ELSE /\ got' = pool.maxUsed + 1
                 /\ pool'.maxUsed = pool.maxUsed + 1
                 /\ pool'.used = {}
       /\ pool = [maxUsed |-> 0, used |-> {}] => got' = 1
       /\ pool = [maxUsed |-> 1, used |-> {}] => got' = 2]_vars

\* Get has returned the smaller of the two free tags 1 and 2.
C24_Witness ==
  /\ got = 1
  /\ pool = [maxUsed |-> 3, used |-> {2}]
  /\ ids = {1, 3}

\* C25: pool Release.  Releasing a held tag t below max_used adds t to the
\* free set; releasing t = max_used lowers max_used past every contiguous
\* free tag beneath it and removes those tags from the free set; releasing
\* the only held tag leaves max_used 0 and the free set empty.
C25_PoolRelease ==
  [][(got' = 0 /\ rec' = "" /\ <<pool, ids>>' # <<pool, ids>>) =>
       \E t \in ids :
         /\ ids' = ids \ {t}
         /\ IF t < pool.maxUsed
              THEN /\ pool'.maxUsed = pool.maxUsed
                   /\ pool'.used = pool.used \cup {t}
              ELSE /\ t = pool.maxUsed
                   /\ \E m \in 0..(t - 1) :
                        /\ m = 0 \/ m \notin pool.used
                        /\ \A k \in (m + 1)..(t - 1) : k \in pool.used
                        /\ pool'.maxUsed = m
                        /\ pool'.used = pool.used \ ((m + 1)..(t - 1))
         /\ ids = {t} => pool' = [maxUsed |-> 0, used |-> {}]]_vars

\* A Release has put a tag below max_used in the free set, and the release of
\* max_used that can follow walks past two contiguous free tags.
C25_Witness ==
  /\ got = 0
  /\ rec = ""
  /\ pool = [maxUsed |-> 4, used |-> {2, 3}]
  /\ ids = {1, 4}
  /\ ENABLED PoolUserRelease(4)

\* C26: pool safety.  Release(0) and Release(t) with t above max_used panic
\* with "invalid value"; the release of a tag that is already free panics
\* with "already recycled"; so every Release of a tag that is not held is
\* rejected and leaves the pool as it was, and a Release of a held tag is not.
C26_PoolSafety ==
  [][\A t \in 0..(MaxTags + 1) :
       PoolUserRelease(t) =>
         /\ (t = 0 \/ t > pool.maxUsed) => rec' = "invalid value"
         /\ (t \in 1..pool.maxUsed /\ t \notin ids) => rec' = "already recycled"
         /\ t \notin ids => (rec' # "" /\ pool' = pool /\ ids' = ids)
         /\ t \in ids => (rec' = "" /\ t \notin ids')]_vars

\* A second Release of a tag has been rejected while other tags are held.
C26_Witness ==
  /\ rec = "already recycled"
  /\ ids # {}
  /\ pool.used # {}

\* C27: pool density.  After any valid sequence of Get and Release the held
\* tags are exactly 1..max_used minus the free set and the free set holds
\* only tags below max_used; once every tag obtained has been released,
\* max_used equals the number of held tags (zero).
C27_PoolDensity ==
  rec = "" =>
    /\ ids = {t \in 1..pool.maxUsed : t \notin pool.used}
    /\ \A u \in pool.used : 1 <= u /\ u < pool.maxUsed
    /\ ids = {} => pool.maxUsed = Cardinality(ids)

\* Held tags with gaps: tags 2 and 4 are held, 1 and 3 are free.
C27_Witness ==
  /\ rec = ""
  /\ ids = {2, 4}
  /\ pool.used = {1, 3}

\* The arguments of the round trip: a keyword of at most 20 characters, an
\* invoke id of at most 9999, segments without RS, ETB and ETX.
RoundTripInput ==
  /\ cIn.picked
  /\ Len(cIn.keyword) <= 20
  /\ cIn.invokeID <= 9999
  /\ \A i \in 1..Len(cIn.args) : \A j \in 1..Len(cIn.args[i]) :
       cIn.args[i][j] \notin {RS, ETB, ETX}

\* The round trip gave back what went in.
RoundTripSame ==
  /\ cRaw.done => cRaw.err = "none"
  /\ cEv.done =>
       /\ cEv.err = "none"
       /\ cEv.Keyword = cIn.keyword
       /\ cEv.InvokeID = cIn.invokeID
       /\ cEv.Segments = cIn.args
       /\ cEv.Type = "C"
       /\ ~cEv.IsIncomplete

C29_EncodingFailure ==
  /\ [](\A c \in Callers :
          /\ (Len(kw[c]) > 20 /\ pc[c] \notin {"idle", "check"}) =>
               err[c] \in {"EncodeErr", "ConnectionClosed"}
          /\ err[c] = "EncodeErr" =>
               /\ pc[c] \in {"destroy", "release", "done"}
               /\ \A w \in wire : w.by # c
               /\ \A i \in 1..Len(stream) : stream[i].by # c
               /\ c \notin Registered
               /\ pc[c] = "destroy" => ENABLED DestroyLookup(c)
               /\ pc[c] = "release" =>
                    (tag[c] \in PoolHeld(pool) /\ ENABLED DestroyRelease(c))
               /\ pc[c] = "done" => released[c] = 1)
  /\ [][\A c \in Callers :
          /\ (err[c] # "EncodeErr" /\ err'[c] = "EncodeErr") =>
               /\ pc[c] = "check"
               /\ state = ConnOK
               /\ UNCHANGED <<clientVars, wire, stream, requests>>
          /\ (err[c] = "EncodeErr" /\ pc'[c] # pc[c]) =>
               UNCHANGED <<clientVars, wire, stream, requests>>]_vars

\* A command with a keyword of 21 bytes has returned the encoding error and
\* released its tag; the client is Open and another command waits for its
\* response.
C29_Witness ==
  /\ err[1] = "EncodeErr"
  /\ pc[1] = "done"
  /\ released[1] = 1
  /\ state = ConnOK
  /\ pc[2] = "wait"
  /\ 1 \notin PoolHeld(pool)

\* C30: the dispatcher never blocks forever on the push into a request's
\* inbox.  Whenever it holds an event for a request it found in the registry,
\* the inbox has room, or the processor that reads the inbox is still running
\* and will make room; this also for a request whose processor has returned
\* and that has not yet been removed from the registry.
C30_PushCompletes ==
  dpc = "push" =>
    \/ ENABLED DispatchPush
    \/ dReq \in Callers /\ pc[dReq] = "wait"
    \/ dReq = NotifReq /\ npc = "run"

\* C31: no response is lost between sending and registering.  Whenever the
\* dispatcher looks up the tag of an event the server sent in reply to a
\* command frame, and the command method that wrote the frame has not yet
\* left its wait, the method's request is in the registry under that tag.
C31_NoLostResponse ==
  \A c \in Callers :
    (/\ dpc = "lookup"
     /\ dEv.typ # "N"
     /\ dEv.org = c
     /\ pc[c] \in {"register", "wait"})
    => (dEv.id \in DOMAIN requests /\ requests[dEv.id] = c)

\* C32: a request that passed the state check before the shutdown began and
\* registers itself while the shutdown sequence runs is still cancelled: once
\* the cancel sweep has finished and Start has returned the reader's result,
\* no command's request is in the registry with its cancellation handle
\* unfired.
C32_LateRegistration ==
  (dpc = "returned" /\ dRet # "CloseErr") =>
    \A c \in Callers : c \in Registered => ctxDone[c]

\* C33: the notification processor never sends on the notifications channel
\* after the shutdown sequence has closed it (a send on a closed channel
\* panics): not for an event that was still in the slot's inbox, and not for
\* a send that was blocked on the full channel.
C33_NoSendAfterClose == npc # "panic"

\* The request processor of c takes the event at the head of its inbox.
Takes(c) ==
  /\ pc[c] = "wait"
  /\ inbox[c] # <<>>
  /\ inbox'[c] = Tail(inbox[c])

\* C34: on each DataMessage event (type Data, first segment "0") taken while
\* the batch flag is clear, the request processor appends exactly the
\* segments after the status digit and the message code to the accumulator,
\* and sets the batch flag iff the event is incomplete.
C34_DataAppend ==
  [][\A c \in Callers :
       (Takes(c) /\ ~batch[c] /\ IsDataMessage(Head(inbox[c]))) =>
         LET e == Head(inbox[c]) IN
           /\ dataSegments'[c] = dataSegments[c] \o SubSeq(e.segs, 3, Len(e.segs))
           /\ batch'[c] = e.inc]_vars

\* C35: while the batch flag is set, every event the request processor takes,
\* whatever its type and segments, has all of its segments appended to the
\* accumulator unchanged; the batch flag is cleared iff the event is not
\* incomplete, and the processor goes on waiting.
C35_BatchPrecedence ==
  [][\A c \in Callers :
       (Takes(c) /\ batch[c]) =>
         LET e == Head(inbox[c]) IN
           /\ dataSegments'[c] = dataSegments[c] \o e.segs
           /\ batch'[c] = e.inc
           /\ pc'[c] = "wait"]_vars

\* The reader has left its loop after the successful response to AGTLogoff
\* and returns nil.
GracefulEnd == rpc = "publish" \/ (rpc = "exit" /\ dErr = "nil")

\* C36: in a graceful logoff, where the server answers Pending and then a
\* successful response on the tag of the Logoff request, the Logoff method
\* returns success and not a cancellation error, although the shutdown
\* sequence that follows the response cancels every registered request.
C36_LogoffReturnsSuccess ==
  (/\ script = <<PendingFrame, SuccessFrame>>
   /\ GracefulEnd
   /\ kw[1] = "AGTLogoff"
   /\ pc[1] # "wait") => err[1] = "none"

\* C37: in every reachable state every key of the request registry other than
\* the notification slot is a tag that is held in the pool, registered by the
\* command method that holds it; a tag is out of the registry when it is
\* released.
C37_RegisteredTagsHeld ==
  /\ [](\A t \in DOMAIN requests \ {MaxUint32} :
          /\ t \in PoolHeld(pool)
          /\ requests[t] \in Callers
          /\ tag[requests[t]] = t
          /\ pc[requests[t]] \in {"wait", "destroy", "delete"})
  /\ [][\A c \in Callers :
          released'[c] # released[c] =>
            (tag[c] \notin DOMAIN requests /\ tag[c] \notin DOMAIN requests')]_vars

\* One method has returned and released its tag while the tag of the other
\* is registered and held.
C37_Witness ==
  /\ pc[1] = "done"
  /\ released[1] = 1
  /\ DOMAIN requests = {2}
  /\ PoolHeld(pool) = {2}

\* C38: the reader never sends on the event channel after it has been closed.
\* The event channel is closed only in the shutdown sequence, which runs only
\* after the reader has terminated and published its result; a reader that
\* has terminated reads and sends nothing more and publishes nothing more.
C38_NoEventAfterClose ==
  /\ [](eventsClosed => rpc = "exit")
  /\ [][/\ (~eventsClosed /\ eventsClosed') => (dpc = "sd_chan" /\ rpc = "exit")
        /\ rpc = "exit" => (rpc' = "exit" /\ nread' = nread /\ dErr' = dErr)
        /\ dErr' # dErr => (rpc # "exit" /\ rpc' = "exit")]_vars

\* The event channel has been closed after the reader handed over events and
\* ended with an error.
C38_Witness ==
  /\ eventsClosed
  /\ rpc = "exit"
  /\ nread >= 1
  /\ dErr = "ReadErr"

\* The events sent for the read number i.
EmittedFor(i) == SelectSeq(emitted, LAMBDA x : x.read = i)

\* C39 as stated: the frame reader emits exactly one decoded event for each
\* read whose last byte is ETX or ETB, built from all the bytes of that read;
\* a read whose last byte is neither emits no event and its bytes are not
\* carried over into the frame of a later read.
C39_OneEventPerRead ==
  \A i \in 1..Len(reads) :
    IF EndsFrame(reads[i])
      THEN /\ Len(EmittedFor(i)) = 1
           /\ EmittedFor(i)[1].event = decodeEvent(reads[i])
           /\ EmittedFor(i)[1].event.err = "none"
      ELSE EmittedFor(i) = <<>>

\* C39, amended: the same for a read whose bytes decode; a read that ends in
\* ETX or ETB and does not decode emits no event and ends the reader with the
\* decoding error, so that it is the last read.
C39_OneEventPerDecodedRead ==
  \A i \in 1..Len(reads) :
    IF EndsFrame(reads[i]) /\ decodeEvent(reads[i]).err = "none"
      THEN /\ Len(EmittedFor(i)) = 1
           /\ EmittedFor(i)[1].event = decodeEvent(reads[i])
      ELSE /\ EmittedFor(i) = <<>>
           /\ EndsFrame(reads[i]) =>
                (i = Len(reads) /\ readerErr = decodeEvent(reads[i]).err)

\* Three reads: the front of a frame, which is dropped, then two frames in one
\* buffer, which make one event, then a frame that ends in ETB.
C39_Witness ==
  /\ reads = <<FrameFront(FrameB), FrameA \o FrameB, FrameB>>
  /\ Len(emitted) = 2
  /\ emitted[2].event.IsIncomplete

\* The notification types without a payload.
PayloadLess ==
  {"AGTAutoReleaseLine", "AGTJobEnd", "AGTHeadsetConnBroken", "AGTSystemError"}

\* C40: the notification processor puts exactly one Notification on the
\* channel for each SuccessNotification and each ErrorNotification it
\* consumes, in arrival order, with the keyword of the event as its type, and
\* none for a DataNotification; the payload is empty for AGTAutoReleaseLine,
\* AGTJobEnd, AGTHeadsetConnBroken and AGTSystemError, and it is the second
\* segment (the error code) for an ErrorNotification.
C40_OneNotificationPerEvent ==
  [][/\ (npc = "run" /\ inbox[NotifReq] # <<>> /\ inbox'[NotifReq] = Tail(inbox[NotifReq])) =>
          LET e == Head(inbox[NotifReq]) IN
            /\ IsNotificationData(e) => (npc' # "send" /\ nOut' = NoNotification)
            /\ IsSuccessfulNotification(e) =>
                 /\ npc' = "send"
                 /\ nOut'.typ = e.kw
                 /\ e.kw \in PayloadLess => (nOut'.payload = "" /\ nOut'.fields = {})
            /\ IsNotificationError(e) =>
                 /\ npc' = "send"
                 /\ nOut' = [typ |-> e.kw, payload |-> e.segs[2], fields |-> {}]
     /\ (npc = "send" /\ npc' # "send") =>
          notifications'.buf = Append(notifications.buf, nOut)
     /\ Len(notifications'.buf) > Len(notifications.buf) =>
          (npc = "send" /\ notifications'.buf = Append(notifications.buf, nOut))]_vars

====
